---- MODULE Spec2Model ----
(***************************************************************************)
(* Model of the data channel of the session-manager-plugin: the sequenced, *)
(* acknowledged message stream of pkg/datachannel (src/unnamed/part_009),  *)
(* the session router of pkg/session/sessionhandler.go and the session     *)
(* plugins that send on the channel.                                       *)
(***************************************************************************)
EXTENDS Integers, Sequences, FiniteSets, TLC

\* ------------------------------------------------------------------ bounds
\* inbound sequence numbers offered by the agent: 0 .. MaxSeq-1
MaxSeq == 3
\* number of inbound frames the agent delivers in one behaviour
MaxArrivals == 4
\* number of calls of SendInputDataMessage in one behaviour
MaxSends == 3
\* the clock runs from 0 to MaxTime
MaxTime == 4
\* shellsession.StdinBufferLimit, the size of the buffer of one read of
\* stdin, scaled down
StdinBufferLimit == 2

\* number of reads of stdin in one behaviour
MaxReads == 3

\* number of calls of ResumeSession in one behaviour
MaxResumes == 2

\* number of times the connection breaks in one behaviour
MaxOutages == 1
\* config.IncomingMessageBufferCapacity, scaled down
IncomingMessageBufferCapacity == 2
\* config.OutgoingMessageBufferCapacity, scaled down
OutgoingMessageBufferCapacity == 2
\* config.ResendMaxAttempt, scaled down
ResendMaxAttempt == 2
\* acknowledge frames the agent sends
MaxAcks == 2
\* raw messages (malformed frames, channel_closed) the transport delivers
MaxRawMessages == 2
\* SendInputDataMessage calls of a plugin, over every payload type
MaxPayloadSends == 1

\* ------------------------------------------------- configuration constants
\* pkg/config is not part of the sources; the values are in clock ticks and
\* keep the relations the specification states (the initial timeout is not
\* below one round trip, the maximum bounds the timeout).
DefaultRoundTripTime == 1
DefaultRoundTripTimeVariation == 0
DefaultTransmissionTimeout == 1
MaxTransmissionTimeout == 3
ClockGranularity == 1
\* RTTConstant = 1/RTTDivisor, RTTVConstant = 1/RTTVDivisor
RTTDivisor == 8
RTTVDivisor == 4
\* the estimators are floats in the code: fixed point with EstimatorScale
\* units per clock tick here
EstimatorScale == 8

\* --------------------------------------------------------------- constants
ShellPluginName == "Standard_Stream"
InteractiveCommandsPluginName == "InteractiveCommands"
NonInteractiveCommandsPluginName == "NonInteractiveCommands"
PortPluginName == "Port"

OutputStreamMessage == "output_stream_data"
InputStreamMessage == "input_stream_data"
AcknowledgeMessage == "acknowledge"
ChannelClosedMessage == "channel_closed"

Output == "Output"
StdErr == "StdErr"
ExitCode == "ExitCode"
Size == "Size"
Flag == "Flag"
HandshakeRequestPayloadType == "HandshakeRequest"
HandshakeResponsePayloadType == "HandshakeResponse"
HandshakeCompletePayloadType == "HandshakeComplete"
EncChallengeRequest == "EncChallengeRequest"
EncChallengeResponse == "EncChallengeResponse"

ProcessFirstMessageName == "ProcessFirstMessage"
PluginHandlerName == "ProcessStreamMessagePayload"

VARIABLES
    \* DataChannel fields
    ExpectedSequenceNumber,
    StreamDataSequenceNumber,
    OutgoingMessageBuffer,
    IncomingMessageBuffer,
    RoundTripTime,
    RoundTripTimeVariation,
    RetransmissionTimeout,
    encryption,
    encryptionEnabled,
    sessionType,
    sessionProperties,
    isSessionTypeSet,
    isSessionEnded,
    isStreamMessageResendTimeout,
    outputStreamHandlers,
    isSessionSpecificHandlerSet,
    \* the ints that the ResendAttempt pointers of the StreamingMessages point to
    ResendAttempt,
    \* Session.SessionType and the position of Session.Execute
    SessionType,
    executePc,
    \* the WebSocket connection accepts writes
    wsUp,
    \* the stream data frames handed to the transport, in order, with the result
    \* of the write
    wire,
    \* the connection of the WebSocket: whether the OpenDataChannelInput frame
    \* is still to be sent on it, and the kind of the first frame sent on it;
    \* the token of the session and the token of the channel, the number of
    \* calls of ResumeSession, and the operations of the resumption in order
    connection,
    \* the accesses of a buffer made by a task that did not hold the buffer's mutex
    unlockedAccesses,
    \* the acknowledge frames handed to the transport with the result of the
    \* write, and how many times each
    acks,
    \* calls of the output-stream handlers, in order, with what they returned
    invocations,
    \* the inbound stream data frames that arrived, and how many times each
    arrived,
    \* the last inbound frame: its sequence number, the expected sequence
    \* number when it arrived and the error its handling returned
    lastReturn,
    \* number of times the connection broke
    outages,
    \* the tasks inside SendInputDataMessage
    senders,
    \* number of SendInputDataMessage calls started (names the fresh MessageId)
    sendCalls,
    \* the retransmit scheduler: position and the element it looked at
    schedulerPc,
    schedulerElement,
    \* number of CalculateRetransmissionTimeout calls
    rttUpdates,
    \* the MessageIds for which the scheduler wrote to isStreamMessageResendTimeout
    resendTimeouts,
    \* the acknowledge frames received: how many, and the sequence number of the
    \* last one
    lastAcknowledge,
    \* the task that waits on isStreamMessageResendTimeout
    listenerPc,
    \* the clock
    now,
    \* the calls of EndSession, Close, the stop callback and TerminateSession,
    \* in order
    calls,
    \* the last call of SendInputDataMessage: how many calls, the payload type
    \* and the input data of the last one
    lastInput,
    \* the last raw message given to OutputMessageHandler: how many, the bytes
    \* of the last one and what the handler returned
    lastRaw,
    \* the codec under test: the message given to SerializeClientMessage, what
    \* it returned and what DeserializeClientMessage made of the result
    codec,
    \* the basic port forwarder: where ReadStream is, the local connection it
    \* holds (they are numbered as they are accepted) and the local connections
    \* that are open
    forwarder,
    \* how many iterations the resend scheduler and the resize loop began
    \* since EndSession was called (counted up to two)
    iterationsSinceEnd,
    \* ShellSession.handleKeyboardInput: where the reader goroutine and the
    \* sending loop are, the buffer each of them holds, stdinBytesLen (the
    \* variable the two share) and the reads of stdin so far
    keyboard

vars == << ExpectedSequenceNumber, StreamDataSequenceNumber, OutgoingMessageBuffer,
           IncomingMessageBuffer, RoundTripTime, RoundTripTimeVariation,
           RetransmissionTimeout, encryption, encryptionEnabled, sessionType,
           isSessionTypeSet, isSessionEnded, isStreamMessageResendTimeout,
           outputStreamHandlers, isSessionSpecificHandlerSet, ResendAttempt,
           SessionType, executePc, wsUp, wire, connection, unlockedAccesses, acks, invocations, arrived,
           lastReturn, outages,
           senders, sendCalls, schedulerPc, schedulerElement, rttUpdates,
           resendTimeouts, lastAcknowledge, listenerPc, now, sessionProperties, calls,
           lastInput, lastRaw, codec, forwarder, iterationsSinceEnd, keyboard >>

\* the tasks of the outbound path and the clock
outboundVars == << isStreamMessageResendTimeout, senders, schedulerPc, schedulerElement,
                   resendTimeouts, lastAcknowledge, listenerPc, now >>

\* ------------------------------------------------------------------ helpers
Max(a, b) == IF a > b THEN a ELSE b
Abs(a) == IF a < 0 THEN -a ELSE a

\* a map with one key set (Go: m[k] = v)
MapPut(m, k, v) == [x \in (DOMAIN m) \cup {k} |-> IF x = k THEN v ELSE m[x]]
\* a map with one key deleted (Go: delete(m, k))
MapDelete(m, k) == [x \in (DOMAIN m) \ {k} |-> m[x]]
\* a list with the element at position i removed (list.Remove)
ListRemove(l, i) == [j \in 1..(Len(l) - 1) |-> IF j < i THEN l[j] ELSE l[j + 1]]

\* a bag with one more copy of x, and the number of copies of x in a bag
BagAdd(bag, x) == MapPut(bag, x, IF x \in DOMAIN bag THEN bag[x] + 1 ELSE 1)
BagCount(bag, x) == IF x \in DOMAIN bag THEN bag[x] ELSE 0

NoError == "nil"

\* The fields of the DataChannel, of the Session and of the transport that the
\* handlers read and write, gathered in one record so that a handler is a
\* function from the state before the call to the state after it.
DC ==
    [ ExpectedSequenceNumber |-> ExpectedSequenceNumber,
      StreamDataSequenceNumber |-> StreamDataSequenceNumber,
      OutgoingMessageBuffer |-> OutgoingMessageBuffer,
      IncomingMessageBuffer |-> IncomingMessageBuffer,
      RoundTripTime |-> RoundTripTime,
      RoundTripTimeVariation |-> RoundTripTimeVariation,
      RetransmissionTimeout |-> RetransmissionTimeout,
      encryption |-> encryption,
      encryptionEnabled |-> encryptionEnabled,
      sessionType |-> sessionType,
      sessionProperties |-> sessionProperties,
      calls |-> calls,
      isSessionTypeSet |-> isSessionTypeSet,
      isSessionEnded |-> isSessionEnded,
      outputStreamHandlers |-> outputStreamHandlers,
      isSessionSpecificHandlerSet |-> isSessionSpecificHandlerSet,
      ResendAttempt |-> ResendAttempt,
      SessionType |-> SessionType,
      wsUp |-> wsUp,
      wire |-> wire,
      connection |-> connection,
      unlockedAccesses |-> unlockedAccesses,
      \* the mutexes the call holds
      Mutex |-> [OutgoingMessageBuffer |-> FALSE, IncomingMessageBuffer |-> FALSE],
      acks |-> acks,
      invocations |-> invocations,
      sendCalls |-> sendCalls,
      rttUpdates |-> rttUpdates,
      now |-> now,
      \* a channel send inside the call found the channel full
      blocked |-> FALSE,
      \* a nil encrypter was dereferenced
      panicked |-> FALSE,
      \* the cipher fails in this call
      encryptError |-> FALSE,
      \* the error the call returns
      err |-> NoError ]

\* The state after a call: every field of the record written back.
Commit(d) ==
    /\ ExpectedSequenceNumber' = d.ExpectedSequenceNumber
    /\ StreamDataSequenceNumber' = d.StreamDataSequenceNumber
    /\ OutgoingMessageBuffer' = d.OutgoingMessageBuffer
    /\ IncomingMessageBuffer' = d.IncomingMessageBuffer
    /\ RoundTripTime' = d.RoundTripTime
    /\ RoundTripTimeVariation' = d.RoundTripTimeVariation
    /\ RetransmissionTimeout' = d.RetransmissionTimeout
    /\ encryption' = d.encryption
    /\ encryptionEnabled' = d.encryptionEnabled
    /\ sessionType' = d.sessionType
    /\ sessionProperties' = d.sessionProperties
    /\ calls' = d.calls
    /\ isSessionTypeSet' = d.isSessionTypeSet
    /\ isSessionEnded' = d.isSessionEnded
    /\ outputStreamHandlers' = d.outputStreamHandlers
    /\ isSessionSpecificHandlerSet' = d.isSessionSpecificHandlerSet
    /\ ResendAttempt' = d.ResendAttempt
    /\ SessionType' = d.SessionType
    /\ wsUp' = d.wsUp
    /\ wire' = d.wire
    /\ connection' = d.connection
    /\ unlockedAccesses' = d.unlockedAccesses
    /\ acks' = d.acks
    /\ invocations' = d.invocations
    /\ sendCalls' = d.sendCalls
    /\ rttUpdates' = d.rttUpdates

\* ---------------------------------------------------------------- transport
\* the TokenValue of a ResumeSessionOutput that has none
EmptyToken == 0

\* the token StartSession gave to the session
StartSessionToken == 1

\* the connection after Session.OpenDataChannel: dialed with the token of
\* StartSession, the OpenDataChannelInput sent as the first frame
OpenedConnection ==
    [ pc |-> "open", first |-> "text", TokenValue |-> StartSessionToken,
      ChannelToken |-> StartSessionToken, resumeCalls |-> 0, log |-> << >> ]

\* DataChannel.SendMessage: the write succeeds while the connection is up and
\* fails with an error otherwise. wire records the frame and whether the
\* transport took it. The frames of the data channel are binary frames.
SendMessage(d, frame) ==
    LET sent == [frame |-> frame, ok |-> d.wsUp]
    IN [d EXCEPT !.wire = IF frame.MessageType = AcknowledgeMessage
                          THEN @ ELSE Append(@, sent),
                 !.acks = IF frame.MessageType = AcknowledgeMessage
                          THEN BagAdd(@, sent) ELSE @,
                 !.connection.first = IF d.wsUp /\ @ = "none" THEN "binary" ELSE @,
                 !.err = IF d.wsUp THEN NoError ELSE "send"]

\* DataChannel.SendAcknowledgeMessage: the acknowledge content is built from
\* the stream data message and handed to the transport.
SendAcknowledgeMessage(d, streamDataMessage) ==
    SendMessage(d, [ MessageType |-> AcknowledgeMessage,
                     AcknowledgeMessageType |-> streamDataMessage.MessageType,
                     MessageId |-> streamDataMessage.MessageId,
                     SequenceNumber |-> streamDataMessage.SequenceNumber,
                     IsSequentialMessage |-> TRUE ])

\* --------------------------------------------------------------- encryption
\* A payload is its bytes and whether they are the encrypter's output.
Plain(bytes) == [enc |-> FALSE, bytes |-> bytes]
\* IEncrypter.Encrypt
Encrypt(payload) == [enc |-> TRUE, bytes |-> payload.bytes]
\* IEncrypter.Decrypt succeeds on ciphertext only
CanDecrypt(payload) == payload.enc
Decrypt(payload) == [enc |-> FALSE, bytes |-> payload.bytes]

\* ------------------------------------------------------------------ buffers
OutgoingBuffer == "OutgoingMessageBuffer"
IncomingBuffer == "IncomingMessageBuffer"

\* Mutex.Lock and Mutex.Unlock of a buffer
Lock(d, buffer) == [d EXCEPT !.Mutex[buffer] = TRUE]
Unlock(d, buffer) == [d EXCEPT !.Mutex[buffer] = FALSE]

\* a read or a write of the Messages of a buffer: it is recorded when the
\* call does not hold the mutex of the buffer
Access(d, buffer, access) ==
    IF d.Mutex[buffer] THEN d
    ELSE [d EXCEPT !.unlockedAccesses = @ \cup {[buffer |-> buffer, access |-> access]}]

\* DataChannel.RemoveDataFromOutgoingMessageBuffer
RemoveDataFromOutgoingMessageBuffer(d, i) ==
    LET d1 == Access(Lock(d, OutgoingBuffer), OutgoingBuffer, "Remove")
    IN Unlock([d1 EXCEPT !.OutgoingMessageBuffer = ListRemove(@, i)], OutgoingBuffer)

\* DataChannel.AddDataToOutgoingMessageBuffer: the front message is removed
\* when the buffer is at capacity, the new message is pushed at the back.
\* Its first statement: the test of the length against the capacity, without
\* the mutex, and the removal of the front.
EvictWhenFull(d) ==
    LET d0 == Access(d, OutgoingBuffer, "Len")
    IN IF Len(d0.OutgoingMessageBuffer) = OutgoingMessageBufferCapacity
       THEN RemoveDataFromOutgoingMessageBuffer(Access(d0, OutgoingBuffer, "Front"), 1)
       ELSE d0

\* Its second statement: PushBack under the mutex.
PushBack(d, streamMessage) ==
    LET d2 == Access(Lock(d, OutgoingBuffer), OutgoingBuffer, "PushBack")
    IN Unlock([d2 EXCEPT !.OutgoingMessageBuffer = Append(@, streamMessage)],
              OutgoingBuffer)

AddDataToOutgoingMessageBuffer(d, streamMessage) ==
    PushBack(EvictWhenFull(d), streamMessage)

\* DataChannel.AddDataToIncomingMessageBuffer
AddDataToIncomingMessageBuffer(d, streamMessage) ==
    LET d0 == Access(d, IncomingBuffer, "len")
        d1 == Access(Lock(d0, IncomingBuffer), IncomingBuffer, "store")
    IN IF Cardinality(DOMAIN d0.IncomingMessageBuffer) = IncomingMessageBufferCapacity
       THEN d0
       ELSE Unlock([d1 EXCEPT !.IncomingMessageBuffer =
                                  MapPut(@, streamMessage.SequenceNumber, streamMessage)],
                   IncomingBuffer)

\* DataChannel.RemoveDataFromIncomingMessageBuffer
RemoveDataFromIncomingMessageBuffer(d, sequenceNumber) ==
    LET d1 == Access(Lock(d, IncomingBuffer), IncomingBuffer, "delete")
    IN Unlock([d1 EXCEPT !.IncomingMessageBuffer = MapDelete(@, sequenceNumber)],
              IncomingBuffer)

\* --------------------------------------------------- retransmission timeout
\* GetRoundTripTime: time.Since(LastSentTime)
GetRoundTripTime(d, streamingMessage) == d.now - streamingMessage.LastSentTime

\* CalculateRetransmissionTimeout without its last test: the timeout is what
\* the estimators give
CalculateRetransmissionTimeoutUnclamped(d, streamingMessage) ==
    LET newRoundTripTime == (d.now - streamingMessage.LastSentTime) * EstimatorScale
        rttv == (((RTTVDivisor - 1) * d.RoundTripTimeVariation)
                 + Abs(d.RoundTripTime - newRoundTripTime)) \div RTTVDivisor
        rtt == (((RTTDivisor - 1) * d.RoundTripTime) + newRoundTripTime) \div RTTDivisor
        rto == (rtt + Max(ClockGranularity * EstimatorScale, 4 * rttv)) \div EstimatorScale
    IN [d EXCEPT !.RoundTripTimeVariation = rttv,
                 !.RoundTripTime = rtt,
                 !.RetransmissionTimeout = rto,
                 !.rttUpdates = @ + 1]

\* DataChannel.CalculateRetransmissionTimeout. RoundTripTime and
\* RoundTripTimeVariation are kept in 1/EstimatorScale ticks.
CalculateRetransmissionTimeout(d, streamingMessage) ==
    LET newRoundTripTime == GetRoundTripTime(d, streamingMessage) * EstimatorScale
        rttv == (((RTTVDivisor - 1) * d.RoundTripTimeVariation)
                 + Abs(d.RoundTripTime - newRoundTripTime)) \div RTTVDivisor
        rtt == (((RTTDivisor - 1) * d.RoundTripTime) + newRoundTripTime) \div RTTDivisor
        rto == (rtt + Max(ClockGranularity * EstimatorScale, 4 * rttv)) \div EstimatorScale
    IN [d EXCEPT !.RoundTripTimeVariation = rttv,
                 !.RoundTripTime = rtt,
                 !.RetransmissionTimeout =
                     IF rto > MaxTransmissionTimeout THEN MaxTransmissionTimeout ELSE rto,
                 !.rttUpdates = @ + 1]

\* the position of the first message with the sequence number, 0 if none
RECURSIVE IndexOfSequenceNumber(_, _, _)
IndexOfSequenceNumber(l, sequenceNumber, i) ==
    IF i > Len(l) THEN 0
    ELSE IF l[i].SequenceNumber = sequenceNumber THEN i
    ELSE IndexOfSequenceNumber(l, sequenceNumber, i + 1)

\* what ProcessAcknowledgedMessage would do if it removed the acknowledged
\* message without the call of CalculateRetransmissionTimeout
ProcessAcknowledgedMessageNoUpdate(d, acknowledgeMessageContent) ==
    LET i == IndexOfSequenceNumber(d.OutgoingMessageBuffer,
                                   acknowledgeMessageContent.SequenceNumber, 1)
    IN IF i = 0 THEN d ELSE RemoveDataFromOutgoingMessageBuffer(d, i)

\* DataChannel.ProcessAcknowledgedMessage: the list is walked with Front and
\* Next; the first message of OutgoingMessageBuffer with the acknowledged
\* sequence number updates the timeout and is removed.
ProcessAcknowledgedMessage(d, acknowledgeMessageContent) ==
    LET i == IndexOfSequenceNumber(d.OutgoingMessageBuffer,
                                   acknowledgeMessageContent.SequenceNumber, 1)
        d0 == Access(d, OutgoingBuffer, "Front")
        d1 == IF Len(d.OutgoingMessageBuffer) > 0 /\ i # 1
              THEN Access(d0, OutgoingBuffer, "Next")
              ELSE d0
    IN IF i = 0 THEN d1
       ELSE RemoveDataFromOutgoingMessageBuffer(
                CalculateRetransmissionTimeout(d1, d1.OutgoingMessageBuffer[i]), i)

\* DataChannel.HandleAcknowledgeMessage: the payload is the acknowledge content
\* when it deserializes.
HandleAcknowledgeMessage(d, outputMessage) ==
    IF ~outputMessage.Payload.parses
    THEN [d EXCEPT !.err = "deserialize"]
    ELSE ProcessAcknowledgedMessage(d, outputMessage.Payload)

\* ----------------------------------------------------------------- outbound
\* The serialized input_stream_data frame of SendInputDataMessage.
ClientMessage(sequenceNumber, messageId, payloadType, payload) ==
    [ MessageType |-> InputStreamMessage,
      SequenceNumber |-> sequenceNumber,
      MessageId |-> messageId,
      PayloadType |-> payloadType,
      Payload |-> payload ]

\* today 'enter' is taken as 'next line': a payload of the one byte 10 becomes 13
RewriteEnter(inputData) ==
    IF inputData.bytes = <<10>> THEN [inputData EXCEPT !.bytes = <<13>>] ELSE inputData

\* the payload SendInputDataMessage puts in the frame
OutboundPayloadOfDecryptedTypes(d, payloadType, inputData) ==
    IF d.encryptionEnabled /\ payloadType \in {Output, StdErr, ExitCode}
    THEN Encrypt(RewriteEnter(inputData))
    ELSE RewriteEnter(inputData)

OutboundPayload(d, payloadType, inputData) ==
    IF d.encryptionEnabled /\ payloadType = Output
    THEN Encrypt(RewriteEnter(inputData))
    ELSE RewriteEnter(inputData)

\* SerializeClientMessage fails on an empty payload: putBytes is given a start
\* offset outside the array.
Serializes(payload) == Len(payload.bytes) > 0

\* IEncrypter.Encrypt returns an error: the encrypter has no data key, or the
\* cipher fails in this call (d.encryptError)
EncryptFails(d, payloadType) ==
    /\ d.encryptionEnabled
    /\ payloadType = Output
    /\ d.encryption # "ready" \/ d.encryptError

\* SendInputDataMessage that buffers the message and increments the sequence
\* number before it looks at the error of the transport
SendInputDataMessageBufferingFirst(d, payloadType, inputData) ==
    LET messageId == d.sendCalls + 1
        d0 == [d EXCEPT !.sendCalls = messageId]
        payload == OutboundPayload(d0, payloadType, inputData)
        msg == ClientMessage(d0.StreamDataSequenceNumber, messageId, payloadType, payload)
        d1 == SendMessage(d0, msg)
        streamingMessage == [ Content |-> msg,
                              SequenceNumber |-> d1.StreamDataSequenceNumber,
                              LastSentTime |-> d1.now,
                              ResendAttempt |-> messageId ]
        d2 == AddDataToOutgoingMessageBuffer(
                  [d1 EXCEPT !.ResendAttempt = MapPut(@, messageId, 0)], streamingMessage)
    IN IF EncryptFails(d0, payloadType) THEN [d0 EXCEPT !.err = "encrypt"]
       ELSE IF ~Serializes(payload) THEN [d0 EXCEPT !.err = "serialize"]
       ELSE [d2 EXCEPT !.StreamDataSequenceNumber = @ + 1]

\* DataChannel.SendInputDataMessage, run without interruption: the frame gets
\* the current StreamDataSequenceNumber and a fresh MessageId, is sent, is
\* buffered for retransmission, and the sequence number is incremented. An
\* error of Encrypt, of SerializeClientMessage or of the transport ends the
\* call before the message is buffered.
SendInputDataMessage(d, payloadType, inputData) ==
    LET messageId == d.sendCalls + 1
        d0 == [d EXCEPT !.sendCalls = messageId]
        payload == OutboundPayload(d0, payloadType, inputData)
        msg == ClientMessage(d0.StreamDataSequenceNumber, messageId, payloadType, payload)
        d1 == SendMessage(d0, msg)
        streamingMessage == [ Content |-> msg,
                              SequenceNumber |-> d1.StreamDataSequenceNumber,
                              LastSentTime |-> d1.now,
                              ResendAttempt |-> messageId ]
        d2 == AddDataToOutgoingMessageBuffer(
                  [d1 EXCEPT !.ResendAttempt = MapPut(@, messageId, 0)], streamingMessage)
    IN IF EncryptFails(d0, payloadType) THEN [d0 EXCEPT !.err = "encrypt"]
       ELSE IF ~Serializes(payload) THEN [d0 EXCEPT !.err = "serialize"]
       ELSE IF d1.err # NoError THEN d1
       ELSE [d2 EXCEPT !.StreamDataSequenceNumber = @ + 1]

\* ------------------------------------------------------ output stream handlers
\* DataChannel.SetSessionType
SetSessionType(d, newSessionType) ==
    LET d1 == [d EXCEPT !.sessionType = newSessionType]
    IN IF Len(d1.isSessionTypeSet) >= 1
       THEN [d1 EXCEPT !.blocked = TRUE]
       ELSE [d1 EXCEPT !.isSessionTypeSet = Append(@, TRUE)]

\* the position of a handler in a handler list, 0 if it is not there
RECURSIVE IndexOfHandler(_, _, _)
IndexOfHandler(handlers, handler, i) ==
    IF i > Len(handlers) THEN 0
    ELSE IF handlers[i] = handler THEN i
    ELSE IndexOfHandler(handlers, handler, i + 1)

\* DataChannel.RegisterOutputStreamHandler
RegisterOutputStreamHandler(d, handler, isSessionSpecificHandler) ==
    [d EXCEPT !.isSessionSpecificHandlerSet = isSessionSpecificHandler,
              !.outputStreamHandlers = Append(@, handler)]

\* DataChannel.DeregisterOutputStreamHandler
DeregisterOutputStreamHandler(d, handler) ==
    LET i == IndexOfHandler(d.outputStreamHandlers, handler, 1)
    IN IF i = 0 THEN d ELSE [d EXCEPT !.outputStreamHandlers = ListRemove(@, i)]

\* What the append of DeregisterOutputStreamHandler does to the array that a
\* running range loop over outputStreamHandlers still reads: the elements
\* after the removed one move down, the last slot keeps its value.
ShiftedArray(array, handler) ==
    LET i == IndexOfHandler(array, handler, 1)
    IN IF i = 0 THEN array
       ELSE [k \in 1..Len(array) |->
                IF k < i \/ k = Len(array) THEN array[k] ELSE array[k + 1]]

\* one call of an output stream handler: the message, whether its payload was
\* written to the output, and what the handler returned
Invocation(handler, message, shown, ready, err) ==
    [ handler |-> handler, SequenceNumber |-> message.SequenceNumber,
      Payload |-> message.Payload, shown |-> shown, ready |-> ready, err |-> err ]

\* Session.ProcessFirstMessage: deregisters itself; when the session has no
\* type yet and the payload type is Output it sets the type to shell and
\* displays the payload. It always reports ready.
ProcessFirstMessage(d, outputMessage) ==
    LET d1 == DeregisterOutputStreamHandler(d, ProcessFirstMessageName)
        sets == d1.SessionType = "" /\ outputMessage.PayloadType = Output
        d2 == IF sets THEN SetSessionType(d1, ShellPluginName) ELSE d1
    IN [ d |-> [d2 EXCEPT !.invocations =
                    Append(@, Invocation(ProcessFirstMessageName, outputMessage, sets, TRUE,
                                         NoError))],
         isHandlerReady |-> TRUE, err |-> NoError ]

\* ShellSession.ProcessStreamMessagePayload displays the payload;
\* PortSession.ProcessStreamMessagePayload reports not ready while the stream
\* is not set and otherwise writes the payload, which can fail.
ProcessStreamMessagePayload(d, outputMessage, outcome) ==
    LET result == IF d.SessionType = ShellPluginName THEN "ok" ELSE outcome
        err == IF result = "err" THEN "write" ELSE NoError
    IN [ d |-> [d EXCEPT !.invocations =
                    Append(@, Invocation(PluginHandlerName, outputMessage,
                                         result = "ok", result # "notready", err))],
         isHandlerReady |-> result # "notready",
         err |-> err ]

CallHandler(d, handler, outputMessage, outcome) ==
    IF handler = ProcessFirstMessageName
    THEN ProcessFirstMessage(d, outputMessage)
    ELSE ProcessStreamMessagePayload(d, outputMessage, outcome)

\* the range loop of processOutputMessageWithHandlers from position i on
RECURSIVE RangeHandlers(_, _, _, _, _, _)
RangeHandlers(d, array, i, outputMessage, outcome, last) ==
    IF i > Len(array) THEN last
    ELSE LET r == CallHandler(d, array[i], outputMessage, outcome)
         IN IF r.err # NoError \/ ~r.isHandlerReady \/ r.d.blocked THEN r
            ELSE RangeHandlers(r.d,
                               IF array[i] = ProcessFirstMessageName
                               THEN ShiftedArray(array, ProcessFirstMessageName)
                               ELSE array,
                               i + 1, outputMessage, outcome, r)

\* what processOutputMessageWithHandlers returns when it calls no handler;
\* invocations records it under the handler name "none"
NoHandlerReady(d, outputMessage) ==
    [ d |-> [d EXCEPT !.invocations =
                 Append(@, Invocation("none", outputMessage, FALSE, FALSE, NoError))],
      isHandlerReady |-> FALSE, err |-> NoError ]

\* DataChannel.processOutputMessageWithHandlers
processOutputMessageWithHandlers(d, outputMessage, outcome) ==
    IF (d.sessionType # "" /\ ~d.isSessionSpecificHandlerSet)
       \/ Len(d.outputStreamHandlers) = 0
    THEN NoHandlerReady(d, outputMessage)
    ELSE RangeHandlers(d, d.outputStreamHandlers, 1, outputMessage, outcome,
                       NoHandlerReady(d, outputMessage))

\* ---------------------------------------------------------------- handshake
KMSEncryption == "KMSEncryption"
SessionTypeAction == "SessionType"
Success == "Success"
Failed == "Failed"
Unsupported == "Unsupported"

\* what ProcessSessionTypeHandshakeAction would do if it stored the requested
\* session type as it came
ProcessSessionTypeHandshakeActionAsRequested(d, sessTypeReq) ==
    IF sessTypeReq.SessionType \in {ShellPluginName, InteractiveCommandsPluginName,
                                    NonInteractiveCommandsPluginName, PortPluginName}
    THEN [d EXCEPT !.sessionType = sessTypeReq.SessionType,
                   !.sessionProperties = sessTypeReq.Properties]
    ELSE [d EXCEPT !.err = "unknown session type"]

\* DataChannel.ProcessSessionTypeHandshakeAction
ProcessSessionTypeHandshakeAction(d, sessTypeReq) ==
    IF sessTypeReq.SessionType \in {ShellPluginName, InteractiveCommandsPluginName,
                                    NonInteractiveCommandsPluginName}
    THEN [d EXCEPT !.sessionType = ShellPluginName,
                   !.sessionProperties = sessTypeReq.Properties]
    ELSE IF sessTypeReq.SessionType = PortPluginName
    THEN [d EXCEPT !.sessionType = sessTypeReq.SessionType,
                   !.sessionProperties = sessTypeReq.Properties]
    ELSE [d EXCEPT !.err = "unknown session type"]

\* DataChannel.ProcessKMSEncryptionHandshakeAction: the encrypter is whatever
\* newEncrypter returns; kmsOk says whether the KMS call gave a data key.
ProcessKMSEncryptionHandshakeAction(d, kmsOk) ==
    IF kmsOk
    THEN [d EXCEPT !.encryption = "ready"]
    ELSE [d EXCEPT !.encryption = "nokey", !.err = "kms"]

\* fmt.Sprintf("Unsupported action %s", action.ActionType), for the action
\* types the model names
UnsupportedActionError(actionType) ==
    CASE actionType = "Telemetry" -> "Unsupported action Telemetry"
      [] actionType = "Compression" -> "Unsupported action Compression"
      [] OTHER -> "Unsupported action"

\* the ActionStatus of message.ProcessedClientAction{}: none was assigned
NoActionStatus == ""

\* one round of the loop of handleHandshakeRequest over the requested actions:
\* r.d is the channel, r.actions the processed actions, r.errors the error list
ProcessAction(r, action, kmsOk) ==
    IF action.ActionType = KMSEncryption
    THEN LET d1 == ProcessKMSEncryptionHandshakeAction(r.d, kmsOk)
         IN IF d1.err # NoError
            THEN [ d |-> [d1 EXCEPT !.err = NoError],
                   actions |-> Append(r.actions,
                       [ActionType |-> action.ActionType, ActionStatus |-> Failed,
                        ActionResult |-> "", Error |-> "Failed to process action"]),
                   errors |-> Append(r.errors, d1.err) ]
            ELSE [ d |-> [d1 EXCEPT !.encryptionEnabled = TRUE],
                   actions |-> Append(r.actions,
                       [ActionType |-> action.ActionType, ActionStatus |-> Success,
                        ActionResult |-> "KMSCipherTextKey", Error |-> ""]),
                   errors |-> r.errors ]
    ELSE IF action.ActionType = SessionTypeAction
    THEN LET d1 == ProcessSessionTypeHandshakeAction(r.d, action.ActionParameters)
         IN IF d1.err # NoError
            THEN [ d |-> [d1 EXCEPT !.err = NoError],
                   actions |-> Append(r.actions,
                       [ActionType |-> action.ActionType, ActionStatus |-> Failed,
                        ActionResult |-> "", Error |-> "Failed to process action"]),
                   errors |-> Append(r.errors, d1.err) ]
            ELSE [ d |-> d1,
                   actions |-> Append(r.actions,
                       [ActionType |-> action.ActionType, ActionStatus |-> Success,
                        ActionResult |-> "", Error |-> ""]),
                   errors |-> r.errors ]
    ELSE [ d |-> r.d,
           actions |-> Append(r.actions,
               [ActionType |-> action.ActionType, ActionStatus |-> NoActionStatus,
                ActionResult |-> Unsupported,
                Error |-> UnsupportedActionError(action.ActionType)]),
           errors |-> Append(r.errors, UnsupportedActionError(action.ActionType)) ]

RECURSIVE ProcessActions(_, _, _, _)
ProcessActions(r, requested, i, kmsOk) ==
    IF i > Len(requested) THEN r
    ELSE ProcessActions(ProcessAction(r, requested[i], kmsOk), requested, i + 1, kmsOk)

\* DataChannel.sendHandshakeResponse
sendHandshakeResponse(d, response) ==
    SendInputDataMessage(d, HandshakeResponsePayloadType,
        [enc |-> FALSE, bytes |-> <<123>>, json |-> response])

\* DataChannel.handleHandshakeRequest
handleHandshakeRequest(d, clientMessage, kmsOk) ==
    IF ~clientMessage.Payload.parses
    THEN [d EXCEPT !.err = "deserialize"]
    ELSE LET r == ProcessActions([d |-> d, actions |-> << >>, errors |-> << >>],
                                 clientMessage.Payload.RequestedClientActions, 1, kmsOk)
         IN sendHandshakeResponse(r.d,
                [ProcessedClientActions |-> r.actions, Errors |-> r.errors])

handleHandshakeCompleteAlwaysTrue(d, clientMessage) ==
    IF ~clientMessage.Payload.parses
    THEN [d EXCEPT !.err = "deserialize"]
    ELSE IF Len(d.isSessionTypeSet) >= 1
    THEN [d EXCEPT !.blocked = TRUE]
    ELSE [d EXCEPT !.isSessionTypeSet = Append(@, TRUE)]

\* DataChannel.handleHandshakeComplete
handleHandshakeComplete(d, clientMessage) ==
    IF ~clientMessage.Payload.parses
    THEN [d EXCEPT !.err = "deserialize"]
    ELSE IF Len(d.isSessionTypeSet) >= 1
    THEN [d EXCEPT !.blocked = TRUE]
    ELSE [d EXCEPT !.isSessionTypeSet = Append(@, d.sessionType # "")]

\* DataChannel.sendEncryptionChallengeResponse
sendEncryptionChallengeResponse(d, challenge) ==
    SendInputDataMessage(d, EncChallengeResponse,
        [enc |-> FALSE, bytes |-> <<123>>, json |-> [Challenge |-> challenge]])

\* DataChannel.handleEncryptionChallengeRequest: the challenge is decrypted and
\* encrypted again with the encrypter of the channel.
handleEncryptionChallengeRequest(d, clientMessage) ==
    IF ~clientMessage.Payload.parses
    THEN [d EXCEPT !.err = "deserialize"]
    ELSE IF d.encryption = "nil"
    THEN [d EXCEPT !.panicked = TRUE]
    ELSE IF d.encryption = "nokey" \/ ~CanDecrypt(clientMessage.Payload.Challenge)
    THEN [d EXCEPT !.err = "decrypt"]
    ELSE sendEncryptionChallengeResponse(d,
             Encrypt(Decrypt(clientMessage.Payload.Challenge)))

\* ------------------------------------------------------------------ inbound
\* the payload types the data channel decrypts when encryption is enabled
Decrypted(d, outputMessage) ==
    d.encryptionEnabled /\ outputMessage.PayloadType \in {Output, StdErr, ExitCode}

\* DataChannel.ProcessIncomingMessageBufferItems: while the message with the
\* expected sequence number is in IncomingMessageBuffer it is deserialized,
\* decrypted, given to the handlers, the expected sequence number is
\* incremented and the message is removed. What the handlers return is not
\* looked at.
RECURSIVE ProcessIncomingMessageBufferItems(_, _)
ProcessIncomingMessageBufferItems(dataChannel, outcome) ==
    LET d == Access(dataChannel, IncomingBuffer, "index")
    IN
    IF d.ExpectedSequenceNumber \notin DOMAIN d.IncomingMessageBuffer
    THEN d
    ELSE LET bufferedStreamMessage == d.IncomingMessageBuffer[d.ExpectedSequenceNumber]
             raw == bufferedStreamMessage.Content
         IN IF Decrypted(d, raw) /\ ~CanDecrypt(raw.Payload)
            THEN [d EXCEPT !.err = "decrypt buffered"]
            ELSE LET outputMessage ==
                         IF Decrypted(d, raw)
                         THEN [raw EXCEPT !.Payload = Decrypt(@)]
                         ELSE raw
                     r == processOutputMessageWithHandlers(d, outputMessage, outcome)
                     d1 == [r.d EXCEPT !.ExpectedSequenceNumber = @ + 1]
                     d2 == RemoveDataFromIncomingMessageBuffer(
                               d1, bufferedStreamMessage.SequenceNumber)
                 IN IF r.d.blocked THEN r.d
                    ELSE ProcessIncomingMessageBufferItems(d2, outcome)

\* the tail of the branch of HandleOutputMessage for the expected sequence
\* number: increment it and process the buffered messages that follow
AdvanceAndDrain(d, outcome) ==
    ProcessIncomingMessageBufferItems(
        [d EXCEPT !.ExpectedSequenceNumber = @ + 1], outcome)

\* the handler HandleOutputMessage calls for a handshake payload type
HandshakeHandler(d, outputMessage, kmsOk) ==
    IF outputMessage.PayloadType = HandshakeRequestPayloadType
    THEN handleHandshakeRequest(d, outputMessage, kmsOk)
    ELSE IF outputMessage.PayloadType = HandshakeCompletePayloadType
    THEN handleHandshakeComplete(d, outputMessage)
    ELSE handleEncryptionChallengeRequest(d, outputMessage)

\* HandleOutputMessage, expected sequence number, handshake payload types: the
\* acknowledge is sent, then the handler of the payload type runs.
HandleExpectedHandshakeMessage(d, outputMessage, outcome, kmsOk) ==
    LET d1 == SendAcknowledgeMessage(d, outputMessage)
        d2 == HandshakeHandler(d1, outputMessage, kmsOk)
    IN IF d1.err # NoError THEN d1
       ELSE IF d2.err # NoError \/ d2.blocked \/ d2.panicked THEN d2
       ELSE AdvanceAndDrain(d2, outcome)

\* HandleOutputMessage, expected sequence number, every other payload type:
\* decrypt, run the output stream handlers, acknowledge when they are ready.
HandleExpectedDataMessage(d, outputMessage, outcome) ==
    IF Decrypted(d, outputMessage) /\ ~CanDecrypt(outputMessage.Payload)
    THEN [d EXCEPT !.err = "decrypt"]
    ELSE LET message == IF Decrypted(d, outputMessage)
                        THEN [outputMessage EXCEPT !.Payload = Decrypt(@)]
                        ELSE outputMessage
             r == processOutputMessageWithHandlers(d, message, outcome)
             d1 == SendAcknowledgeMessage(r.d, message)
         IN IF r.d.blocked THEN r.d
            ELSE IF r.err # NoError THEN [r.d EXCEPT !.err = r.err]
            ELSE IF ~r.isHandlerReady THEN r.d
            ELSE IF d1.err # NoError THEN d1
            ELSE AdvanceAndDrain(d1, outcome)

\* what HandleOutputMessage would do with a sequence number above the expected
\* one if it acknowledged before it looked at the room in the buffer
HandleEarlyMessageAcknowledgedFirst(d, outputMessage, rawMessage) ==
    LET d1 == SendAcknowledgeMessage(Access(d, IncomingBuffer, "len"), outputMessage)
    IN IF d1.err # NoError THEN d1
       ELSE AddDataToIncomingMessageBuffer(d1,
                [ Content |-> rawMessage,
                  SequenceNumber |-> outputMessage.SequenceNumber,
                  LastSentTime |-> d1.now ])

\* HandleOutputMessage, sequence number above the expected one: acknowledge
\* and keep the raw message when IncomingMessageBuffer has room.
HandleEarlyMessage(d, outputMessage, rawMessage) ==
    LET d0 == Access(d, IncomingBuffer, "len")
    IN IF Cardinality(DOMAIN d0.IncomingMessageBuffer) < IncomingMessageBufferCapacity
       THEN LET d1 == SendAcknowledgeMessage(d0, outputMessage)
            IN IF d1.err # NoError THEN d1
               ELSE AddDataToIncomingMessageBuffer(d1,
                        [ Content |-> rawMessage,
                          SequenceNumber |-> outputMessage.SequenceNumber,
                          LastSentTime |-> d1.now ])
       ELSE d0

\* what HandleOutputMessage would do if it acknowledged a message with a
\* sequence number below the expected one
HandleLateMessageAcknowledged(d, outputMessage) ==
    SendAcknowledgeMessage(d, outputMessage)

\* what HandleOutputMessage would do if it gave a message with a sequence
\* number below the expected one to the output stream handlers
HandleLateMessageAgain(d, outputMessage) ==
    processOutputMessageWithHandlers(d, outputMessage, "ok").d

\* HandleOutputMessage, sequence number below the expected one: nothing is
\* done with the message.
HandleLateMessage(d, outputMessage) == d

\* DataChannel.HandleOutputMessage
HandleOutputMessage(d, outputMessage, rawMessage, outcome, kmsOk) ==
    IF outputMessage.SequenceNumber = d.ExpectedSequenceNumber
    THEN IF outputMessage.PayloadType \in {HandshakeRequestPayloadType,
                                           HandshakeCompletePayloadType,
                                           EncChallengeRequest}
         THEN HandleExpectedHandshakeMessage(d, outputMessage, outcome, kmsOk)
         ELSE HandleExpectedDataMessage(d, outputMessage, outcome)
    ELSE IF outputMessage.SequenceNumber > d.ExpectedSequenceNumber
    THEN HandleEarlyMessage(d, outputMessage, rawMessage)
    ELSE HandleLateMessage(d, outputMessage)

\* ------------------------------------------------------------ frame decoding
\* The layout of the serialized ClientMessage (constants of pkg/message): the
\* offset of the PayloadType field, the offset of the PayloadLength field and
\* the length of that field.
\* headerLength is a uint32: headerLength + ClientMessage_PayloadLengthLength
\* wraps around. The range is 2^32 in the code; it is 2^30 here, within the
\* integers of TLC and far above every length of the model.
UInt32Range == 1073741824

ClientMessage_PayloadTypeOffset == 112
ClientMessage_PayloadLengthOffset == 116
ClientMessage_PayloadLengthLength == 4

StartPublicationMessage == "start_publication"
PausePublicationMessage == "pause_publication"

\* The bytes given to OutputMessageHandler: how many there are, the values of
\* the HeaderLength, CreatedDate and PayloadLength fields, whether the
\* PayloadDigest field is the digest of the payload bytes, and the message the
\* other fields spell.
RawMessage(message, length, headerLength, createdDate, payloadLength, digestOk) ==
    [ length |-> length, HeaderLength |-> headerLength, CreatedDate |-> createdDate,
      PayloadLength |-> payloadLength, digestOk |-> digestOk, message |-> message ]

\* before the first raw message: no bytes
NoRawMessage == RawMessage([MessageType |-> ""], 0, 0, 0, 0, FALSE)

\* getInteger and the other field readers fail when the field does not lie
\* inside the byte array
FieldOutside(length, offset, fieldLength) ==
    offset > length - 1 \/ offset + fieldLength > length \/ offset < 0

\* ClientMessage.DeserializeClientMessage. The fields up to PayloadType are
\* read with a bounds check each and an error ends the call. The error of the
\* PayloadLength read is kept while HeaderLength is read; the payload is the
\* slice of the input from HeaderLength + 4 on, taken without a check, which
\* panics when that offset is beyond the input.
DeserializeClientMessage(input) ==
    IF FieldOutside(input.length, ClientMessage_PayloadTypeOffset, 4)
    THEN [err |-> "offset is outside the byte array", panics |-> FALSE, message |-> << >>]
    ELSE IF (input.HeaderLength + ClientMessage_PayloadLengthLength) % UInt32Range
                > input.length
    THEN [err |-> NoError, panics |-> TRUE, message |-> << >>]
    ELSE [ err |-> IF FieldOutside(input.length, ClientMessage_PayloadLengthOffset, 4)
                   THEN "offset is outside the byte array" ELSE NoError,
           panics |-> FALSE,
           message |-> [ fields |-> input.message,
                         HeaderLength |-> input.HeaderLength,
                         CreatedDate |-> input.CreatedDate,
                         PayloadLength |-> input.PayloadLength,
                         \* the payload slice starts where the payload is only
                         \* for the HeaderLength of the layout
                         digestMatches |->
                             /\ input.digestOk
                             /\ input.HeaderLength = ClientMessage_PayloadLengthOffset ] ]

\* ClientMessage.Validate
Validate(clientMessage) ==
    IF clientMessage.fields.MessageType \in {StartPublicationMessage, PausePublicationMessage}
    THEN NoError
    ELSE IF clientMessage.HeaderLength = 0 THEN "HeaderLength cannot be zero"
    ELSE IF clientMessage.fields.MessageType = "" THEN "MessageType is missing"
    ELSE IF clientMessage.CreatedDate = 0 THEN "CreatedDate is missing"
    ELSE IF clientMessage.PayloadLength # 0 /\ ~clientMessage.digestMatches
    THEN "payload Hash is not valid"
    ELSE NoError

\* ------------------------------------------------------- the bytes of a frame
\* The layout of the serialized ClientMessage (the other constants of
\* pkg/message): the offset and the length of each field of the header.
ClientMessage_Layout ==
    [ HLOffset |-> 0, MessageTypeOffset |-> 4, MessageTypeLength |-> 32,
      SchemaVersionOffset |-> 36, CreatedDateOffset |-> 40,
      SequenceNumberOffset |-> 48, FlagsOffset |-> 56, MessageIdOffset |-> 64,
      PayloadDigestOffset |-> 80, PayloadDigestLength |-> 32,
      PayloadOffset |-> 120 ]

OffsetIsOutside == "offset is outside the byte array"

\* byteArray[offset : offset+n] and copy(byteArray[offset:], bytes); the
\* offsets count from 0 as in the code
Slice(byteArray, offset, n) == SubSeq(byteArray, offset + 1, offset + n)
Copy(byteArray, offset, bytes) ==
    [ i \in 1..Len(byteArray) |->
        IF i > offset /\ i <= offset + Len(bytes) THEN bytes[i - offset]
        ELSE byteArray[i] ]

\* big-endian numbers (binary.Write and binary.Read with binary.BigEndian)
RECURSIVE BytesToNat(_)
BytesToNat(bytes) ==
    IF bytes = << >> THEN 0
    ELSE BytesToNat(SubSeq(bytes, 1, Len(bytes) - 1)) * 256 + bytes[Len(bytes)]

RECURSIVE NatToBytes(_, _)
NatToBytes(value, n) ==
    IF n = 0 THEN << >> ELSE Append(NatToBytes(value \div 256, n - 1), value % 256)

integerToBytes(input) == NatToBytes(input, 4)
longToBytes(input) == NatToBytes(input, 8)
bytesToLong(input) == BytesToNat(input)

\* bytes.Trim(b, cutset): the bytes of cutset are removed from both ends
RECURSIVE Trim(_, _)
Trim(b, cutset) ==
    IF b = << >> THEN b
    ELSE IF b[1] \in cutset THEN Trim(Tail(b), cutset)
    ELSE IF b[Len(b)] \in cutset THEN Trim(SubSeq(b, 1, Len(b) - 1), cutset)
    ELSE b

\* the white space of strings.TrimSpace within ASCII
WhiteSpace == {9, 10, 11, 12, 13, 32}

\* getString: the nulls are trimmed, then the white space
getString(byteArray, offset, stringLength) ==
    IF FieldOutside(Len(byteArray), offset, stringLength)
    THEN [err |-> OffsetIsOutside, value |-> << >>]
    ELSE [err |-> NoError,
          value |-> Trim(Trim(Slice(byteArray, offset, stringLength), {0}), WhiteSpace)]

\* getInteger (and getUInteger, which converts its result)
getInteger(byteArray, offset) ==
    IF FieldOutside(Len(byteArray), offset, 4)
    THEN [err |-> OffsetIsOutside, value |-> 0]
    ELSE [err |-> NoError, value |-> BytesToNat(Slice(byteArray, offset, 4))]

\* getLong (and getULong)
getLong(byteArray, offset) ==
    IF FieldOutside(Len(byteArray), offset, 8)
    THEN [err |-> OffsetIsOutside, value |-> 0]
    ELSE [err |-> NoError, value |-> bytesToLong(Slice(byteArray, offset, 8))]

\* getBytes
getBytes(byteArray, offset, byteLength) ==
    IF FieldOutside(Len(byteArray), offset, byteLength)
    THEN [err |-> OffsetIsOutside, value |-> << >>]
    ELSE [err |-> NoError, value |-> Slice(byteArray, offset, byteLength)]

\* getUuid: the long at the offset is the least significant half, the long
\* at offset + 8 the most significant half; the UUID is the bytes of the most
\* significant long followed by the bytes of the least significant long
getUuid(byteArray, offset) ==
    IF FieldOutside(Len(byteArray), offset, 16)
    THEN [err |-> OffsetIsOutside, value |-> << >>]
    ELSE LET leastSignificantLong == getLong(byteArray, offset).value
             mostSignificantLong == getLong(byteArray, offset + 8).value
         IN [err |-> NoError,
             value |-> longToBytes(mostSignificantLong) \o longToBytes(leastSignificantLong)]

\* putInteger (and putUInteger); the result is the error and the byte array
\* after the call
putInteger(byteArray, offset, value) ==
    IF FieldOutside(Len(byteArray), offset, 4)
    THEN [err |-> OffsetIsOutside, bytes |-> byteArray]
    ELSE [err |-> NoError, bytes |-> Copy(byteArray, offset, integerToBytes(value))]

\* putLong (and putULong)
putLong(byteArray, offset, value) ==
    IF FieldOutside(Len(byteArray), offset, 8)
    THEN [err |-> OffsetIsOutside, bytes |-> byteArray]
    ELSE [err |-> NoError, bytes |-> Copy(byteArray, offset, longToBytes(value))]

\* putString: the slot is filled with spaces and the string copied over them
putString(byteArray, offsetStart, offsetEnd, inputString) ==
    IF \/ offsetStart > Len(byteArray) - 1 \/ offsetEnd > Len(byteArray) - 1
       \/ offsetStart > offsetEnd \/ offsetStart < 0
    THEN [err |-> OffsetIsOutside, bytes |-> byteArray]
    ELSE IF offsetEnd - offsetStart + 1 < Len(inputString)
    THEN [err |-> "not enough space to save the string", bytes |-> byteArray]
    ELSE [err |-> NoError,
          bytes |-> Copy(Copy(byteArray, offsetStart,
                              [i \in 1..(offsetEnd - offsetStart + 1) |-> 32]),
                         offsetStart, inputString)]

\* putBytes
putBytes(byteArray, offsetStart, offsetEnd, inputBytes) ==
    IF \/ offsetStart > Len(byteArray) - 1 \/ offsetEnd > Len(byteArray) - 1
       \/ offsetStart > offsetEnd \/ offsetStart < 0
    THEN [err |-> OffsetIsOutside, bytes |-> byteArray]
    ELSE IF offsetEnd - offsetStart + 1 # Len(inputBytes)
    THEN [err |-> "not enough space to save the bytes", bytes |-> byteArray]
    ELSE [err |-> NoError, bytes |-> Copy(byteArray, offsetStart, inputBytes)]

\* uuid.Nil
NilUuid == [i \in 1..16 |-> 0]

\* putUuid: a nil UUID is refused; the least significant long is written at
\* the offset, the most significant long at offset + 8
putUuid(byteArray, offset, input) ==
    IF input = NilUuid
    THEN [err |-> "putUuid failed: input is null", bytes |-> byteArray]
    ELSE IF FieldOutside(Len(byteArray), offset, 16)
    THEN [err |-> OffsetIsOutside, bytes |-> byteArray]
    ELSE LET leastSignificantLong == bytesToLong(SubSeq(input, 9, 16))
             mostSignificantLong == bytesToLong(SubSeq(input, 1, 8))
             first == putLong(byteArray, offset, leastSignificantLong)
         IN IF first.err # NoError
            THEN [err |-> "failed to put leastSignificantLong Long value", bytes |-> byteArray]
            ELSE putLong(first.bytes, offset + 8, mostSignificantLong)

\* sha256 of the payload, as 32 bytes that depend on every byte of the payload
\* and on their number
Sha256(payload) ==
    [ i \in 1..ClientMessage_Layout.PayloadDigestLength |->
        (BytesToNat(payload) + Len(payload) + i) % 256 ]

\* one step of SerializeClientMessage: the first error ends the call
AndThen(r, put(_)) == IF r.err # NoError THEN r ELSE put(r.bytes)

\* ClientMessage.SerializeClientMessage: PayloadLength is set to the length of
\* the payload, the byte array has the length of the header and the payload,
\* and the fields are put one after the other. An error returns a byte array
\* of length 1. The result has the message after the call as well.
SerializeClientMessage(clientMessage) ==
    LET L == ClientMessage_Layout
        payloadLength == Len(clientMessage.Payload)
        headerLength == ClientMessage_PayloadLengthOffset
        totalMessageLength ==
            headerLength + ClientMessage_PayloadLengthLength + payloadLength
        result == [i \in 1..totalMessageLength |-> 0]
        r1 == putInteger(result, L.HLOffset, headerLength)
        r2 == AndThen(r1, LAMBDA b : putString(b, L.MessageTypeOffset,
                  L.MessageTypeOffset + L.MessageTypeLength - 1,
                  clientMessage.MessageType))
        r3 == AndThen(r2, LAMBDA b : putInteger(b, L.SchemaVersionOffset,
                  clientMessage.SchemaVersion))
        r4 == AndThen(r3, LAMBDA b : putLong(b, L.CreatedDateOffset,
                  clientMessage.CreatedDate))
        r5 == AndThen(r4, LAMBDA b : putLong(b, L.SequenceNumberOffset,
                  clientMessage.SequenceNumber))
        r6 == AndThen(r5, LAMBDA b : putLong(b, L.FlagsOffset, clientMessage.Flags))
        r7 == AndThen(r6, LAMBDA b : putUuid(b, L.MessageIdOffset,
                  clientMessage.MessageId))
        r8 == AndThen(r7, LAMBDA b : putBytes(b, L.PayloadDigestOffset,
                  L.PayloadDigestOffset + L.PayloadDigestLength - 1,
                  Sha256(clientMessage.Payload)))
        r9 == AndThen(r8, LAMBDA b : putInteger(b, ClientMessage_PayloadTypeOffset,
                  clientMessage.PayloadType))
        r10 == AndThen(r9, LAMBDA b : putInteger(b, ClientMessage_PayloadLengthOffset,
                  payloadLength))
        r11 == AndThen(r10, LAMBDA b : putBytes(b, L.PayloadOffset,
                  L.PayloadOffset + payloadLength - 1, clientMessage.Payload))
    IN [ err |-> r11.err,
         bytes |-> IF r11.err # NoError THEN << 0 >> ELSE r11.bytes,
         clientMessage |-> [clientMessage EXCEPT !.PayloadLength = payloadLength] ]

\* ClientMessage.DeserializeClientMessage on the bytes themselves: every field
\* of the header is read from its offset; the payload is the input from
\* HeaderLength + 4 on.
DeserializeClientMessageBytes(input) ==
    LET L == ClientMessage_Layout
        messageType == getString(input, L.MessageTypeOffset, L.MessageTypeLength)
        schemaVersion == getInteger(input, L.SchemaVersionOffset)
        createdDate == getLong(input, L.CreatedDateOffset)
        sequenceNumber == getLong(input, L.SequenceNumberOffset)
        flags == getLong(input, L.FlagsOffset)
        messageId == getUuid(input, L.MessageIdOffset)
        payloadDigest == getBytes(input, L.PayloadDigestOffset, L.PayloadDigestLength)
        payloadType == getInteger(input, ClientMessage_PayloadTypeOffset)
        payloadLength == getInteger(input, ClientMessage_PayloadLengthOffset)
        headerLength == getInteger(input, L.HLOffset)
        errs == << messageType.err, schemaVersion.err, createdDate.err,
                   sequenceNumber.err, flags.err, messageId.err,
                   payloadDigest.err, payloadType.err >>
        payloadStart ==
            (headerLength.value + ClientMessage_PayloadLengthLength) % UInt32Range
    IN IF \E i \in 1..Len(errs) : errs[i] # NoError
       THEN [err |-> OffsetIsOutside, panics |-> FALSE, message |-> << >>]
       ELSE IF headerLength.err # NoError
       THEN [err |-> payloadLength.err, panics |-> FALSE, message |-> << >>]
       ELSE IF payloadStart > Len(input)
       THEN [err |-> NoError, panics |-> TRUE, message |-> << >>]
       ELSE [ err |-> payloadLength.err, panics |-> FALSE,
              message |-> [ HeaderLength |-> headerLength.value,
                            MessageType |-> messageType.value,
                            SchemaVersion |-> schemaVersion.value,
                            CreatedDate |-> createdDate.value,
                            SequenceNumber |-> sequenceNumber.value,
                            Flags |-> flags.value,
                            MessageId |-> messageId.value,
                            PayloadDigest |-> payloadDigest.value,
                            PayloadType |-> payloadType.value,
                            PayloadLength |-> payloadLength.value,
                            Payload |-> SubSeq(input, payloadStart + 1, Len(input)) ] ]

\* ---------------------------------------------------------------- flags
\* message.PayloadTypeFlag
DisconnectToPort == 1

\* DataChannel.SendFlag with nothing sent
SendFlagSendsNothing(d, flagType) == d

\* DataChannel.SendFlag: the flag is written as four bytes, big-endian, and
\* sent as the payload of a Flag message
SendFlag(d, flagType) ==
    SendInputDataMessage(d, Flag, Plain(integerToBytes(flagType)))

\* ------------------------------------------------------------ codec inputs
\* The messages given to the codec: the two message types the plugin sends,
\* dates and sequence numbers of one and of two bytes, the nil UUID and two
\* others (the longs of a UUID stay within three bytes), payloads of zero, one and two bytes.
ClientMessages ==
    [ MessageType : { << 105, 110, 112, 117, 116, 95, 115, 116, 114, 101, 97, 109,
                         95, 100, 97, 116, 97 >>,
                      << 97, 99, 107, 110, 111, 119, 108, 101, 100, 103, 101 >> },
      SchemaVersion : {1},
      CreatedDate : {7, 300},
      SequenceNumber : {0, 1, 256},
      Flags : {0, 3},
      MessageId : { NilUuid,
                    [i \in 1..16 |-> IF i = 8 THEN 5 ELSE IF i = 16 THEN 9 ELSE 0],
                    [i \in 1..16 |-> IF i = 6 THEN 1 ELSE IF i = 15 THEN 2 ELSE 0] },
      PayloadType : {1, 3},
      PayloadLength : {0},
      Payload : { << >>, << 104 >>, << 10, 0 >> } ]

\* handleKeyboardInput after term.MakeRaw and the go statement: the reader
\* is about to read, the loop waits in its select, stdinBytesLen is zero.
KeyboardStarted ==
    [ readerPc |-> "read", readerBytes |-> << >>, stdinBytesLen |-> 0,
      loopPc |-> "select", stdinBytes |-> << >>, reads |-> << >> ]

\* before the first call of the codec
NoCodec ==
    [ pc |-> "idle",
      result |-> [err |-> NoError, bytes |-> << >>, clientMessage |-> << >>],
      decoded |-> [err |-> NoError, panics |-> FALSE, message |-> << >>] ]

\* ------------------------------------------------------------ channel closed
\* DataChannel.EndSession
EndSession(d) == [d EXCEPT !.isSessionEnded = TRUE, !.calls = Append(@, "EndSession")]

\* DataChannel.Close closes the WebSocket: writes fail from then on.
Close(d) == [d EXCEPT !.wsUp = FALSE, !.calls = Append(@, "Close")]

\* The stop callback given to OutputMessageHandler. Until Execute initialized
\* a plugin it is Session.Stop, which has an empty body; the shell plugin
\* registers ShellSession.Stop, which restores the terminal; the port plugin
\* registers PortSession.Stop, which closes the streams of the port session.
Stop(d) ==
    [d EXCEPT !.calls = Append(@, IF d.SessionType = PortPluginName THEN "PortSession.Stop"
                                  ELSE IF d.SessionType = ShellPluginName
                                  THEN "ShellSession.Stop"
                                  ELSE "Session.Stop")]

\* what HandleChannelClosedMessage would do if it called the stop callback
\* before it closed the transport
HandleChannelClosedMessageStopFirst(d, outputMessage) ==
    Close(Stop(EndSession(d)))

\* DataChannel.HandleChannelClosedMessage: a payload that does not deserialize
\* is logged; the session is ended, the transport closed and the stop
\* callback called in every case.
HandleChannelClosedMessage(d, outputMessage) ==
    Stop(Close(EndSession(d)))

\* DataChannel.OutputMessageHandler
OutputMessageHandler(d, rawMessage, outcome, kmsOk) ==
    LET r == DeserializeClientMessage(rawMessage)
        outputMessage == r.message.fields
    IN IF r.panics THEN [d EXCEPT !.panicked = TRUE]
       ELSE IF r.err # NoError THEN [d EXCEPT !.err = r.err]
       ELSE IF Validate(r.message) # NoError THEN [d EXCEPT !.err = Validate(r.message)]
       ELSE IF outputMessage.MessageType = OutputStreamMessage
       THEN HandleOutputMessage(d, outputMessage, outputMessage, outcome, kmsOk)
       ELSE IF outputMessage.MessageType = AcknowledgeMessage
       THEN HandleAcknowledgeMessage(d, outputMessage)
       ELSE IF outputMessage.MessageType = ChannelClosedMessage
       THEN HandleChannelClosedMessage(d, outputMessage)
       ELSE d

\* a registry to which the port plugin was not added
SessionRegistryShellOnly == {ShellPluginName}

\* session.SessionRegistry after the init functions of the plugin packages:
\* the names under which the shell plugin and the port plugin registered
SessionRegistry == {ShellPluginName, PortPluginName}

\* ------------------------------------------------------------------ session
\* Session.Execute after OpenDataChannel: it waits for a value on
\* isSessionTypeSet; on false it returns an error, on true it copies the
\* session type and the plugin registered for it registers its handler.
ExecuteSessionType(d, value) ==
    IF value
    THEN IF d.sessionType \in SessionRegistry
         THEN [ RegisterOutputStreamHandler([d EXCEPT !.SessionType = d.sessionType],
                                            PluginHandlerName, TRUE)
                EXCEPT !.isSessionTypeSet = Tail(@) ]
         ELSE [d EXCEPT !.SessionType = d.sessionType,
                        !.isSessionTypeSet = Tail(@),
                        !.panicked = TRUE]
    ELSE [d EXCEPT !.isSessionTypeSet = Tail(@)]

\* ------------------------------------------------------------- environment
\* the frames of the agent: the MessageId tells frames apart
PayloadTypeIndex(payloadType) ==
    CASE payloadType = Output -> 1
      [] payloadType = Size -> 3
      [] payloadType = HandshakeRequestPayloadType -> 5
      [] payloadType = HandshakeCompletePayloadType -> 7
      [] payloadType = EncChallengeRequest -> 8
      [] OTHER -> 0

AgentFrame(sequenceNumber, payloadType, payload) ==
    [ MessageType |-> OutputStreamMessage,
      SequenceNumber |-> sequenceNumber,
      MessageId |-> (100 * (sequenceNumber + 1)) + PayloadTypeIndex(payloadType),
      PayloadType |-> payloadType,
      Payload |-> payload ]

SequenceNumbers == 0..(MaxSeq - 1)

\* stream data: terminal output and a payload type no handler displays
DataFrames ==
    { AgentFrame(n, t, Plain(<<104>>)) : n \in SequenceNumbers, t \in {Output, Size} }

\* terminal output encrypted with the data key
CipherFrames ==
    { AgentFrame(n, Output, Encrypt(Plain(<<104>>))) : n \in SequenceNumbers }

\* a requested client action of type SessionType
SessionTypeRequest(requestedSessionType, properties) ==
    [ ActionType |-> SessionTypeAction,
      ActionParameters |-> [SessionType |-> requestedSessionType,
                            Properties |-> properties] ]

\* the handshake requests of the agent: one that does not parse, and lists of
\* requested client actions
HandshakeRequests ==
    { [parses |-> FALSE, RequestedClientActions |-> << >>] } \cup
    { [parses |-> TRUE, RequestedClientActions |-> actions] : actions \in
        { << SessionTypeRequest(ShellPluginName, "") >>,
          << [ActionType |-> KMSEncryption, ActionParameters |-> [KMSKeyId |-> "k"]],
             SessionTypeRequest(PortPluginName, "port") >>,
          << SessionTypeRequest("Unknown", "") >> } }

\* a challenge the data key decrypts and one it does not
EncryptionChallenges ==
    { [parses |-> TRUE, Challenge |-> Plain(<<1>>)],
      [parses |-> TRUE, Challenge |-> Encrypt(Plain(<<1>>))] }

HandshakeFrames ==
    { AgentFrame(n, HandshakeRequestPayloadType, p) :
        n \in SequenceNumbers, p \in HandshakeRequests } \cup
    { AgentFrame(n, HandshakeCompletePayloadType, [parses |-> b]) :
        n \in SequenceNumbers, b \in BOOLEAN } \cup
    { AgentFrame(n, EncChallengeRequest, p) :
        n \in SequenceNumbers, p \in EncryptionChallenges }

\* what the handler of a port session can do with a payload: write it, report
\* that the stream is not set, fail to write it. The shell handler displays.
HandlerOutcomes ==
    IF SessionType = PortPluginName THEN {"ok", "notready", "err"} ELSE {"ok"}

\* whether the KMS call of a handshake request with a KMSEncryption action
\* gives a data key
KmsOutcomes(frame) ==
    IF /\ frame.PayloadType = HandshakeRequestPayloadType
       /\ \E i \in DOMAIN frame.Payload.RequestedClientActions :
              frame.Payload.RequestedClientActions[i].ActionType = KMSEncryption
    THEN BOOLEAN ELSE {TRUE}

\* a sequence number names one message of the agent: a frame that arrives
\* again is a retransmission of the same bytes
Retransmits(frame) ==
    \A g \in DOMAIN arrived : g.SequenceNumber = frame.SequenceNumber => g = frame

\* the tasks of a shell session that call SendInputDataMessage: the keyboard
\* reader and the terminal resize poller, with what each sends
Tasks == {"keyboard", "resize"}
TaskPayloadType(task) == IF task = "keyboard" THEN Output ELSE Size
TaskInput(task) == IF task = "keyboard" THEN Plain(<<104>>) ELSE Plain(<<123>>)

\* a task outside SendInputDataMessage: no frame in hand, done counts the
\* calls of the task that returned nil
IdleSender ==
    [pc |-> "idle", msg |-> << >>, streamingMessage |-> << >>, register |-> 0, done |-> 0]

\* a session that is no basic port forwarding: no forwarder
NoForwarder == [pc |-> "none", stream |-> 0, open |-> {}]

\* --------------------------------------------------------------------- Init
Init ==
    /\ ExpectedSequenceNumber = 0
    /\ StreamDataSequenceNumber = 0
    /\ OutgoingMessageBuffer = << >>
    /\ IncomingMessageBuffer = << >>
    /\ RoundTripTime = DefaultRoundTripTime * EstimatorScale
    /\ RoundTripTimeVariation = DefaultRoundTripTimeVariation * EstimatorScale
    /\ RetransmissionTimeout = DefaultTransmissionTimeout
    /\ encryption = "nil"
    /\ encryptionEnabled = FALSE
    /\ sessionType = ""
    /\ isSessionTypeSet = << >>
    /\ isSessionEnded = FALSE
    /\ isStreamMessageResendTimeout = << >>
    /\ outputStreamHandlers = << ProcessFirstMessageName >>
    /\ isSessionSpecificHandlerSet = FALSE
    /\ ResendAttempt = << >>
    /\ SessionType = ""
    /\ executePc = "waitSessionType"
    /\ wsUp = TRUE
    /\ wire = << >>
    /\ connection = OpenedConnection
    /\ unlockedAccesses = {}
    /\ acks = << >>
    /\ invocations = << >>
    /\ arrived = << >>
    /\ lastReturn = [SequenceNumber |-> -1, expected |-> 0, err |-> NoError]
    /\ outages = 0
    /\ senders = [t \in Tasks |-> IdleSender]
    /\ sendCalls = 0
    /\ schedulerPc = "sleep"
    /\ schedulerElement = << >>
    /\ rttUpdates = 0
    /\ resendTimeouts = {}
    /\ lastAcknowledge = [count |-> 0, SequenceNumber |-> -1]
    /\ listenerPc = "listening"
    /\ now = 0
    /\ sessionProperties = ""
    /\ calls = << >>
    /\ lastInput = [count |-> 0, payloadType |-> "", inputData |-> Plain(<< >>)]
    /\ lastRaw = [count |-> 0, input |-> NoRawMessage, result |-> NoError]
    /\ codec = NoCodec
    /\ keyboard = KeyboardStarted
    /\ forwarder = NoForwarder
    /\ iterationsSinceEnd = [scheduler |-> 0, resize |-> 0]

\* The session of an agent that performs no handshake, once its first frame
\* of terminal output was handled by ProcessFirstMessage and Session.Execute
\* started the shell plugin: the tasks that send input run from here on.
FirstOutput == AgentFrame(0, Output, Plain(<<104>>))
ShellSessionRunning ==
    /\ ExpectedSequenceNumber = 1
    /\ StreamDataSequenceNumber = 0
    /\ OutgoingMessageBuffer = << >>
    /\ IncomingMessageBuffer = << >>
    /\ RoundTripTime = DefaultRoundTripTime * EstimatorScale
    /\ RoundTripTimeVariation = DefaultRoundTripTimeVariation * EstimatorScale
    /\ RetransmissionTimeout = DefaultTransmissionTimeout
    /\ encryption = "nil"
    /\ encryptionEnabled = FALSE
    /\ sessionType = ShellPluginName
    /\ isSessionTypeSet = << >>
    /\ isSessionEnded = FALSE
    /\ isStreamMessageResendTimeout = << >>
    /\ outputStreamHandlers = << PluginHandlerName >>
    /\ isSessionSpecificHandlerSet = TRUE
    /\ ResendAttempt = << >>
    /\ SessionType = ShellPluginName
    /\ executePc = "running"
    /\ wsUp = TRUE
    /\ wire = << >>
    /\ connection = OpenedConnection
    /\ unlockedAccesses = {}
    /\ acks = BagAdd(<< >>, [frame |-> [ MessageType |-> AcknowledgeMessage,
                                         AcknowledgeMessageType |-> FirstOutput.MessageType,
                                         MessageId |-> FirstOutput.MessageId,
                                         SequenceNumber |-> FirstOutput.SequenceNumber,
                                         IsSequentialMessage |-> TRUE ],
                             ok |-> TRUE])
    /\ invocations = << Invocation(ProcessFirstMessageName, FirstOutput, TRUE, TRUE,
                                   NoError) >>
    /\ arrived = BagAdd(<< >>, FirstOutput)
    /\ lastReturn = [SequenceNumber |-> 0, expected |-> 0, err |-> NoError]
    /\ outages = 0
    /\ senders = [t \in Tasks |-> IdleSender]
    /\ sendCalls = 0
    /\ schedulerPc = "sleep"
    /\ schedulerElement = << >>
    /\ rttUpdates = 0
    /\ resendTimeouts = {}
    /\ lastAcknowledge = [count |-> 0, SequenceNumber |-> -1]
    /\ listenerPc = "listening"
    /\ now = 0
    /\ sessionProperties = ""
    /\ calls = << >>
    /\ lastInput = [count |-> 0, payloadType |-> "", inputData |-> Plain(<< >>)]
    /\ lastRaw = [count |-> 0, input |-> NoRawMessage, result |-> NoError]
    /\ codec = NoCodec
    /\ keyboard = KeyboardStarted
    /\ forwarder = NoForwarder
    /\ iterationsSinceEnd = [scheduler |-> 0, resize |-> 0]

\* number of inbound stream data frames so far
RECURSIVE BagSize(_)
BagSize(bag) ==
    IF DOMAIN bag = {} THEN 0
    ELSE LET x == CHOOSE y \in DOMAIN bag : TRUE
         IN bag[x] + BagSize(MapDelete(bag, x))
Arrivals == BagSize(arrived)

\* ------------------------------------------------------------------ actions
\* The WebSocket reader delivers an output_stream_data frame: OutputMessageHandler
\* passes it to HandleOutputMessage.
ReceiveStreamData(frames) ==
    /\ executePc # "panic"
    /\ Arrivals < MaxArrivals
    /\ \E frame \in { f \in frames : Retransmits(f) },
          outcome \in HandlerOutcomes :
         \E kmsOk \in KmsOutcomes(frame) :
           LET d == HandleOutputMessage(DC, frame, frame, outcome, kmsOk)
           IN /\ ~d.blocked
              /\ Commit(d)
              /\ arrived' = BagAdd(arrived, frame)
              /\ lastReturn' = [ SequenceNumber |-> frame.SequenceNumber,
                                 expected |-> ExpectedSequenceNumber,
                                 err |-> d.err ]
              /\ executePc' = IF d.panicked THEN "panic" ELSE executePc
    /\ UNCHANGED << keyboard, codec, forwarder, iterationsSinceEnd, lastInput, lastRaw, outages, outboundVars >>

\* Session.Execute takes the value from isSessionTypeSet.
ExecuteReceivesSessionType ==
    /\ executePc = "waitSessionType"
    /\ Len(isSessionTypeSet) > 0
    /\ Commit(ExecuteSessionType(DC, Head(isSessionTypeSet)))
    /\ executePc' = IF ~Head(isSessionTypeSet) THEN "failed"
                    ELSE IF sessionType \in SessionRegistry THEN "running" ELSE "panic"
    /\ UNCHANGED << keyboard, codec, forwarder, iterationsSinceEnd, lastInput, lastRaw, arrived, lastReturn, outages, outboundVars >>

\* The connection breaks: writes fail until it is up again.
ConnectionLost ==
    /\ wsUp
    /\ outages < MaxOutages
    /\ wsUp' = FALSE
    /\ outages' = outages + 1
    /\ UNCHANGED << keyboard, codec, forwarder, iterationsSinceEnd, lastInput, lastRaw, ExpectedSequenceNumber, StreamDataSequenceNumber,
                    OutgoingMessageBuffer, IncomingMessageBuffer, RoundTripTime,
                    RoundTripTimeVariation, RetransmissionTimeout, encryption,
                    encryptionEnabled, sessionType, sessionProperties, calls, isSessionTypeSet, isSessionEnded,
                    outputStreamHandlers,
                    isSessionSpecificHandlerSet, ResendAttempt, SessionType, executePc,
                    wire, connection, unlockedAccesses, acks, invocations, arrived, lastReturn, sendCalls,
                    rttUpdates, outboundVars >>

\* The reconnect succeeded.
ConnectionRestored ==
    /\ ~wsUp
    /\ wsUp' = TRUE
    /\ outages' = outages
    /\ UNCHANGED << keyboard, codec, forwarder, iterationsSinceEnd, lastInput, lastRaw, ExpectedSequenceNumber, StreamDataSequenceNumber,
                    OutgoingMessageBuffer, IncomingMessageBuffer, RoundTripTime,
                    RoundTripTimeVariation, RetransmissionTimeout, encryption,
                    encryptionEnabled, sessionType, sessionProperties, calls, isSessionTypeSet, isSessionEnded,
                    outputStreamHandlers,
                    isSessionSpecificHandlerSet, ResendAttempt, SessionType, executePc,
                    wire, connection, unlockedAccesses, acks, invocations, arrived, lastReturn, sendCalls,
                    rttUpdates, outboundVars >>

ReceiveData == ReceiveStreamData(DataFrames)

ReceiveCipher == ReceiveStreamData(CipherFrames)

ReceiveHandshake == ReceiveStreamData(HandshakeFrames)

\* the variables the inbound actions and Session.Execute write besides the
\* fields of the data channel
inboundVars == << executePc, arrived, lastReturn >>

\* ------------------------------------------------- raw messages, session end
\* a message serialized as the agent serializes it
WellFormed(message) ==
    RawMessage(message,
               ClientMessage_PayloadLengthOffset + ClientMessage_PayloadLengthLength + 1,
               ClientMessage_PayloadLengthOffset, 1, 1, TRUE)

\* the channel_closed message of the service, with a payload that
\* deserializes and with one that does not
ChannelClosedInputs ==
    { WellFormed([ MessageType |-> ChannelClosedMessage, SequenceNumber |-> 0,
                   MessageId |-> 900, PayloadType |-> "",
                   Payload |-> [parses |-> b, Output |-> "bye"] ]) : b \in BOOLEAN }

\* Byte arrays that are not a serialized ClientMessage, made from a frame of
\* terminal output with the expected sequence number: cut before the
\* PayloadType field; cut inside the PayloadLength field, with a HeaderLength
\* that points inside the array and with the HeaderLength of the layout; a
\* HeaderLength of zero, one beyond the array and the largest one, for which
\* HeaderLength + 4 wraps to 3; no MessageType; no
\* CreatedDate; a digest that is not the digest of the payload.
MalformedInputs ==
    LET m == AgentFrame(ExpectedSequenceNumber, Output, Plain(<<104>>))
        full == WellFormed(m)
    IN { [full EXCEPT !.length = ClientMessage_PayloadTypeOffset],
         [full EXCEPT !.length = ClientMessage_PayloadLengthOffset + 2,
                      !.HeaderLength = ClientMessage_PayloadTypeOffset],
         [full EXCEPT !.length = ClientMessage_PayloadLengthOffset + 2],
         [full EXCEPT !.HeaderLength = 0],
         [full EXCEPT !.HeaderLength = full.length],
         [full EXCEPT !.HeaderLength = UInt32Range - 1],
         [full EXCEPT !.message.MessageType = ""],
         [full EXCEPT !.CreatedDate = 0],
         [full EXCEPT !.digestOk = FALSE] }

\* The WebSocket reader gives a raw message to OutputMessageHandler.
ReceiveRawMessage(inputs) ==
    /\ executePc # "panic"
    /\ lastRaw.count < MaxRawMessages
    /\ \E input \in inputs, outcome \in HandlerOutcomes :
          LET d == OutputMessageHandler(DC, input, outcome, TRUE)
          IN /\ ~d.blocked
             /\ Commit(d)
             /\ lastRaw' = [ count |-> lastRaw.count + 1, input |-> input,
                             result |-> IF d.panicked THEN "panic" ELSE d.err ]
             /\ executePc' = IF d.panicked THEN "panic" ELSE executePc
    /\ UNCHANGED << keyboard, codec, forwarder, iterationsSinceEnd, lastInput, arrived, lastReturn, outages, outboundVars >>

ReceiveChannelClosed == ReceiveRawMessage(ChannelClosedInputs)

ReceiveMalformed == ReceiveRawMessage(MalformedInputs)

\* Byte arrays whose header does not describe them, made from a frame of
\* the agent with one payload byte: a PayloadLength of zero with a digest
\* that is not the digest of the payload; a PayloadLength above the number of
\* payload bytes; a HeaderLength that is not the offset of PayloadLength, with
\* a PayloadLength of zero and with the one of the payload.
InconsistentInputs ==
    LET m == AgentFrame(ExpectedSequenceNumber, Output, Plain(<<104>>))
        full == WellFormed(m)
    IN { [full EXCEPT !.PayloadLength = 0, !.digestOk = FALSE],
         [full EXCEPT !.PayloadLength = full.PayloadLength + 1],
         [full EXCEPT !.HeaderLength = ClientMessage_PayloadTypeOffset,
                      !.PayloadLength = 0],
         [full EXCEPT !.HeaderLength = ClientMessage_PayloadTypeOffset] }

ReceiveInconsistent == ReceiveRawMessage(InconsistentInputs)

\* The agent's frames arrive in order: the next one has the expected
\* sequence number.
ReceiveInOrder ==
    ReceiveStreamData({ f \in DataFrames \cup HandshakeFrames :
                          f.SequenceNumber = ExpectedSequenceNumber })

\* ShellSession.handleKeyboardInput, the timer case of its loop: it returns
\* nil once the session is ended, and Execute returns with it.
KeyboardTimerSessionEnded ==
    /\ executePc = "running"
    /\ SessionType = ShellPluginName
    /\ isSessionEnded
    /\ executePc' = "returned"
    /\ UNCHANGED << keyboard, codec, forwarder, iterationsSinceEnd, lastInput, lastRaw, ExpectedSequenceNumber, StreamDataSequenceNumber,
                    OutgoingMessageBuffer, IncomingMessageBuffer, RoundTripTime,
                    RoundTripTimeVariation, RetransmissionTimeout, encryption,
                    encryptionEnabled, sessionType, sessionProperties, calls,
                    isSessionTypeSet, isSessionEnded, outputStreamHandlers,
                    isSessionSpecificHandlerSet, ResendAttempt, SessionType, wsUp, wire, connection, unlockedAccesses,
                    acks, invocations, sendCalls, rttUpdates, arrived, lastReturn,
                    outages, outboundVars >>

\* StandardStreamForwarding.ReadStream after PortSession.Stop closed the
\* streams: the read fails with an error that is not io.EOF, handleReadError
\* returns it, and Execute returns it.
PortReadFails ==
    /\ executePc = "running"
    /\ SessionType = PortPluginName
    /\ \E i \in DOMAIN calls : calls[i] = "PortSession.Stop"
    /\ executePc' = "returnedError"
    /\ UNCHANGED << keyboard, codec, forwarder, iterationsSinceEnd, lastInput, lastRaw, ExpectedSequenceNumber, StreamDataSequenceNumber,
                    OutgoingMessageBuffer, IncomingMessageBuffer, RoundTripTime,
                    RoundTripTimeVariation, RetransmissionTimeout, encryption,
                    encryptionEnabled, sessionType, sessionProperties, calls,
                    isSessionTypeSet, isSessionEnded, outputStreamHandlers,
                    isSessionSpecificHandlerSet, ResendAttempt, SessionType, wsUp, wire, connection, unlockedAccesses,
                    acks, invocations, sendCalls, rttUpdates, arrived, lastReturn,
                    outages, outboundVars >>

\* HandshakeRequest frames with one SessionType action: it names one of the
\* session types an agent can ask for, or one that no plugin has
SessionTypeFrames ==
    { AgentFrame(n, HandshakeRequestPayloadType,
                 [ parses |-> TRUE,
                   RequestedClientActions |-> << SessionTypeRequest(t, properties) >> ]) :
        n \in SequenceNumbers,
        t \in { ShellPluginName, InteractiveCommandsPluginName,
                NonInteractiveCommandsPluginName, PortPluginName, "Unknown" },
        properties \in {"p1", "p2"} }

\* The frames of a handshake about the session type arrive in order.
ReceiveSessionTypeHandshake ==
    ReceiveStreamData({ f \in SessionTypeFrames \cup
                              { AgentFrame(n, HandshakeCompletePayloadType, [parses |-> TRUE]) :
                                  n \in SequenceNumbers } :
                          f.SequenceNumber = ExpectedSequenceNumber })

HandshakeNext ==
    \/ ReceiveSessionTypeHandshake
    \/ ExecuteReceivesSessionType

HandshakeSpec == Init /\ [][HandshakeNext]_vars

\* The session type is determined by a handshake or by the first frame of
\* output, whichever the agent sends, while Execute waits for it.
RouterNext ==
    \/ ReceiveSessionTypeHandshake
    \/ ReceiveData
    \/ ExecuteReceivesSessionType

RouterSpec == Init /\ [][RouterNext]_vars

\* a requested client action of a type the client does not know
UnknownAction(actionType) ==
    [ ActionType |-> actionType,
      ActionParameters |-> [SessionType |-> "", Properties |-> ""] ]

\* HandshakeRequest frames of an agent that asks for actions the client does
\* not know, alone and beside the ones it knows
UnknownActionFrames ==
    { AgentFrame(n, HandshakeRequestPayloadType,
                 [parses |-> TRUE, RequestedClientActions |-> actions]) :
        n \in SequenceNumbers,
        actions \in { << UnknownAction("Telemetry") >>,
                      << UnknownAction("Compression"),
                         SessionTypeRequest(ShellPluginName, "") >>,
                      << SessionTypeRequest(PortPluginName, "port"),
                         UnknownAction("Telemetry"), UnknownAction("Compression") >> } }

\* The frames of such a handshake arrive in order.
ReceiveUnknownActions ==
    ReceiveStreamData({ f \in UnknownActionFrames \cup
                              { AgentFrame(n, HandshakeCompletePayloadType, [parses |-> TRUE]) :
                                  n \in SequenceNumbers } :
                          f.SequenceNumber = ExpectedSequenceNumber })

ActionsNext ==
    \/ ReceiveUnknownActions
    \/ ExecuteReceivesSessionType
    \/ ConnectionLost
    \/ ConnectionRestored

ActionsSpec == Init /\ [][ActionsNext]_vars

\* the payload types of message.PayloadType the model names
PayloadTypes ==
    { Output, StdErr, ExitCode, Size, Flag, HandshakeRequestPayloadType,
      HandshakeResponsePayloadType, HandshakeCompletePayloadType, EncChallengeRequest,
      EncChallengeResponse }

\* A task calls SendInputDataMessage with a payload type and with a payload:
\* some byte, or the line feed.
SendsPayload ==
    /\ lastInput.count < MaxPayloadSends
    /\ \E payloadType \in PayloadTypes, inputData \in {Plain(<<104>>), Plain(<<10>>)} :
          /\ Commit(SendInputDataMessage(DC, payloadType, inputData))
          /\ lastInput' = [ count |-> lastInput.count + 1, payloadType |-> payloadType,
                            inputData |-> inputData ]
    /\ UNCHANGED << keyboard, codec, forwarder, iterationsSinceEnd, lastRaw, inboundVars, outages, outboundVars >>

\* The HandshakeRequest frames of the agent that ask for encryption arrive in
\* order: a KMSEncryption action that succeeds turns encryption on.
ReceiveHandshakeRequest ==
    ReceiveStreamData({ f \in HandshakeFrames :
                          /\ f.SequenceNumber = ExpectedSequenceNumber
                          /\ f.PayloadType = HandshakeRequestPayloadType
                          /\ f.Payload.parses
                          /\ f.Payload.RequestedClientActions[1].ActionType = KMSEncryption })

GatingNext ==
    \/ ReceiveHandshakeRequest
    \/ SendsPayload

GatingSpec == Init /\ [][GatingNext]_vars

\* number of calls of SendInputDataMessage after which the callers stop
MaxInputs == MaxPayloadSends + 1

\* A caller of SendInputDataMessage: terminal input or an empty read; the
\* cipher may fail in the call.
SendsInput ==
    /\ sendCalls < MaxInputs
    /\ \E inputData \in {Plain(<<104>>), Plain(<< >>)}, encryptError \in BOOLEAN :
          Commit(SendInputDataMessage([DC EXCEPT !.encryptError = encryptError],
                                      Output, inputData))
    /\ UNCHANGED << keyboard, codec, forwarder, iterationsSinceEnd, lastInput, lastRaw, inboundVars, outages, outboundVars >>

\* The reader of the WebSocket gets frames of the agent, in any order, and
\* byte arrays that are no frames.
DecodeNext ==
    \/ ReceiveData
    \/ ExecuteReceivesSessionType
    \/ ReceiveMalformed

DecodeSpec == Init /\ [][DecodeNext]_vars

\* The reader of the WebSocket gets byte arrays that Validate has to judge.
ValidateNext ==
    \/ ExecuteReceivesSessionType
    \/ ReceiveMalformed
    \/ ReceiveInconsistent
    \/ ConnectionLost
    \/ ConnectionRestored

ValidateSpec == Init /\ [][ValidateNext]_vars

\* A session from its start to its end: frames that arrive in order, the
\* channel_closed message, and the plugin that Execute runs.
SessionNext ==
    \/ ReceiveInOrder
    \/ ExecuteReceivesSessionType
    \/ ReceiveChannelClosed
    \/ KeyboardTimerSessionEnded
    \/ PortReadFails

SessionSpec == Init /\ [][SessionNext]_vars

\* Execute and the plugin it runs are tasks that run when they can.
SessionLive ==
    /\ SessionSpec
    /\ WF_vars(ExecuteReceivesSessionType)
    /\ WF_vars(KeyboardTimerSessionEnded)
    /\ WF_vars(PortReadFails)

\* ------------------------------------------- SendInputDataMessage, by steps
\* A task of the running plugin enters SendInputDataMessage: the input is rewritten and encrypted,
\* the ClientMessage gets a fresh MessageId and the value StreamDataSequenceNumber
\* has now, and is serialized. A message that does not serialize ends the call.
SendBuild(task) ==
    /\ executePc = "running"
    /\ senders[task].pc = "idle"
    /\ sendCalls < MaxSends
    /\ LET messageId == sendCalls + 1
           payload == OutboundPayload(DC, TaskPayloadType(task), TaskInput(task))
           msg == ClientMessage(StreamDataSequenceNumber, messageId,
                                TaskPayloadType(task), payload)
       IN /\ sendCalls' = messageId
          /\ senders' = [senders EXCEPT ![task] =
                             IF Serializes(payload)
                             THEN [@ EXCEPT !.pc = "send", !.msg = msg]
                             ELSE @]
    /\ UNCHANGED << keyboard, codec, forwarder, iterationsSinceEnd, lastInput, lastRaw, ExpectedSequenceNumber, StreamDataSequenceNumber,
                    OutgoingMessageBuffer, IncomingMessageBuffer, RoundTripTime,
                    RoundTripTimeVariation, RetransmissionTimeout, encryption,
                    encryptionEnabled, sessionType, sessionProperties, calls, isSessionTypeSet, isSessionEnded,
                    isStreamMessageResendTimeout, outputStreamHandlers,
                    isSessionSpecificHandlerSet, ResendAttempt, SessionType, wsUp, wire, connection, unlockedAccesses,
                    acks, invocations, rttUpdates, inboundVars, outages, schedulerPc,
                    schedulerElement, resendTimeouts, lastAcknowledge, listenerPc, now >>

\* The task hands the serialized message to the transport; a failed write
\* ends the call with the error.
SendWrite(task) ==
    /\ senders[task].pc = "send"
    /\ LET d == SendMessage(DC, senders[task].msg)
       IN /\ Commit(d)
          /\ senders' = [senders EXCEPT ![task] =
                             IF d.err = NoError
                             THEN [@ EXCEPT !.pc = "buffer"]
                             ELSE [@ EXCEPT !.pc = "idle", !.msg = << >>]]
    /\ UNCHANGED << keyboard, codec, forwarder, iterationsSinceEnd, lastInput, lastRaw, isStreamMessageResendTimeout, inboundVars, outages, schedulerPc,
                    schedulerElement, resendTimeouts, lastAcknowledge, listenerPc, now >>

\* The task builds the StreamingMessage with the value StreamDataSequenceNumber
\* has now and enters AddDataToOutgoingMessageBuffer: the length is tested
\* and the front removed when the buffer is at capacity.
SendBuffer(task) ==
    /\ senders[task].pc = "buffer"
    /\ LET msg == senders[task].msg
           streamingMessage == [ Content |-> msg,
                                 SequenceNumber |-> StreamDataSequenceNumber,
                                 LastSentTime |-> now,
                                 ResendAttempt |-> msg.MessageId ]
           d == EvictWhenFull([DC EXCEPT !.ResendAttempt = MapPut(@, msg.MessageId, 0)])
       IN /\ Commit(d)
          /\ senders' = [senders EXCEPT ![task] =
                             [@ EXCEPT !.pc = "push",
                                       !.streamingMessage = << streamingMessage >>]]
    /\ UNCHANGED << keyboard, codec, forwarder, iterationsSinceEnd, lastInput, lastRaw, isStreamMessageResendTimeout, inboundVars, outages, schedulerPc,
                    schedulerElement, resendTimeouts, lastAcknowledge, listenerPc, now >>

\* The task takes the mutex and pushes the StreamingMessage at the back, then
\* reads StreamDataSequenceNumber for the increment.
SendPush(task) ==
    /\ senders[task].pc = "push"
    /\ Commit(PushBack(DC, senders[task].streamingMessage[1]))
    /\ senders' = [senders EXCEPT ![task] =
                       [@ EXCEPT !.pc = "store", !.streamingMessage = << >>,
                                 !.register = StreamDataSequenceNumber]]
    /\ UNCHANGED << keyboard, codec, forwarder, iterationsSinceEnd, lastInput, lastRaw, isStreamMessageResendTimeout, inboundVars, outages, schedulerPc,
                    schedulerElement, resendTimeouts, lastAcknowledge, listenerPc, now >>

\* The task writes the value it read, plus one, to StreamDataSequenceNumber
\* and returns nil.
SendStore(task) ==
    /\ senders[task].pc = "store"
    /\ Commit([DC EXCEPT !.StreamDataSequenceNumber = senders[task].register + 1])
    /\ senders' = [senders EXCEPT ![task] =
                       [@ EXCEPT !.pc = "idle", !.msg = << >>, !.register = 0,
                                 !.done = @ + 1]]
    /\ UNCHANGED << keyboard, codec, forwarder, iterationsSinceEnd, lastInput, lastRaw, isStreamMessageResendTimeout, inboundVars, outages, schedulerPc,
                    schedulerElement, resendTimeouts, lastAcknowledge, listenerPc, now >>

TaskBuilds == \E task \in Tasks : SendBuild(task)
TaskWrites == \E task \in Tasks : SendWrite(task)
TaskBuffers == \E task \in Tasks : SendBuffer(task)
TaskPushes == \E task \in Tasks : SendPush(task)
TaskStores == \E task \in Tasks : SendStore(task)

\* The tasks of a shell session that send input, each inside or outside
\* SendInputDataMessage, and a connection that can break.
OutboundNext ==
    \/ TaskBuilds
    \/ TaskWrites
    \/ TaskBuffers
    \/ TaskPushes
    \/ TaskStores
    \/ ConnectionLost
    \/ ConnectionRestored

OutboundSpec == ShellSessionRunning /\ [][OutboundNext]_vars

\* --------------------------------------------- retransmission and acknowledges
\* A task calls SendInputDataMessage and nothing runs in between.
SendInput(task) ==
    /\ executePc = "running"
    /\ senders[task].pc = "idle"
    /\ sendCalls < MaxSends
    /\ LET d == SendInputDataMessage(DC, TaskPayloadType(task), TaskInput(task))
       IN /\ Commit(d)
          /\ senders' = [senders EXCEPT ![task] =
                             IF d.err = NoError THEN [@ EXCEPT !.done = @ + 1] ELSE @]
    /\ iterationsSinceEnd' =
           IF isSessionEnded /\ task = "resize"
           THEN [iterationsSinceEnd EXCEPT !.resize = IF @ < 2 THEN @ + 1 ELSE @]
           ELSE iterationsSinceEnd
    /\ UNCHANGED << keyboard, codec, forwarder, lastInput, lastRaw, isStreamMessageResendTimeout, inboundVars, outages, schedulerPc,
                    schedulerElement, resendTimeouts, lastAcknowledge, listenerPc, now >>

KeyboardSends == SendInput("keyboard")

\* ShellSession.handleTerminalResize, an iteration of its loop that finds the
\* size of the terminal changed and sends it
ResizeSends == SendInput("resize")

\* ResendSleepInterval passes, while the clock is before the limit: the
\* scheduler's sleep ends.
Clock(limit) ==
    /\ now < limit
    /\ now' = now + 1
    /\ schedulerPc' = IF schedulerPc = "sleep" THEN "peek" ELSE schedulerPc
    /\ iterationsSinceEnd' =
           IF isSessionEnded /\ schedulerPc = "sleep"
           THEN [iterationsSinceEnd EXCEPT !.scheduler = IF @ < 2 THEN @ + 1 ELSE @]
           ELSE iterationsSinceEnd
    /\ UNCHANGED << keyboard, codec, forwarder, lastInput, lastRaw, ExpectedSequenceNumber, StreamDataSequenceNumber,
                    OutgoingMessageBuffer, IncomingMessageBuffer, RoundTripTime,
                    RoundTripTimeVariation, RetransmissionTimeout, encryption,
                    encryptionEnabled, sessionType, sessionProperties, calls, isSessionTypeSet, isSessionEnded,
                    isStreamMessageResendTimeout, outputStreamHandlers,
                    isSessionSpecificHandlerSet, ResendAttempt, SessionType, wsUp, wire, connection, unlockedAccesses,
                    acks, invocations, sendCalls, rttUpdates, inboundVars, outages,
                    senders, schedulerElement, resendTimeouts, lastAcknowledge,
                    listenerPc >>

Tick == Clock(MaxTime)

\* the clock of a session that goes on after the resend attempts of a message
\* are exhausted
MaxLateTime == MaxTime + 2
LateTick == Clock(MaxLateTime)

\* the scheduler resends the message it looked at when the time since its
\* LastSentTime is above RetransmissionTimeout
ResendDue(streamMessage) == now - streamMessage.LastSentTime > RetransmissionTimeout

\* ResendStreamDataMessageScheduler after the sleep: it takes the front of
\* OutgoingMessageBuffer under the mutex; with no front, or a front that is not
\* due, it sleeps again.
SchedulerPeek ==
    /\ schedulerPc = "peek"
    /\ IF Len(OutgoingMessageBuffer) > 0 /\ ResendDue(Head(OutgoingMessageBuffer))
       THEN /\ schedulerElement' = << Head(OutgoingMessageBuffer) >>
            /\ schedulerPc' = "resend"
       ELSE /\ schedulerElement' = << >>
            /\ schedulerPc' = "sleep"
    /\ UNCHANGED << keyboard, codec, forwarder, iterationsSinceEnd, lastInput, lastRaw, ExpectedSequenceNumber, StreamDataSequenceNumber,
                    OutgoingMessageBuffer, IncomingMessageBuffer, RoundTripTime,
                    RoundTripTimeVariation, RetransmissionTimeout, encryption,
                    encryptionEnabled, sessionType, sessionProperties, calls, isSessionTypeSet, isSessionEnded,
                    isStreamMessageResendTimeout, outputStreamHandlers,
                    isSessionSpecificHandlerSet, ResendAttempt, SessionType, wsUp, wire, connection, unlockedAccesses,
                    acks, invocations, sendCalls, rttUpdates, inboundVars, outages,
                    senders, resendTimeouts, lastAcknowledge, listenerPc, now >>

\* the test the scheduler makes before a resend
ResendAttemptsExhaustedLate(attempt) == attempt > ResendMaxAttempt
ResendAttemptsExhausted(attempt) == attempt >= ResendMaxAttempt

\* ResendStreamDataMessageScheduler with a message that is due: when the
\* attempts are exhausted it writes to isStreamMessageResendTimeout, which
\* blocks while the channel is full; it increments the attempts through the
\* pointer, sends the content again and sets LastSentTime in its copy of the
\* message.
SchedulerResend ==
    /\ schedulerPc = "resend"
    /\ LET element == schedulerElement[1]
           id == element.ResendAttempt
           exhausted == ResendAttemptsExhausted(ResendAttempt[id])
           d == SendMessage([DC EXCEPT !.ResendAttempt[id] = @ + 1],
                            element.Content)
       IN /\ exhausted => Len(isStreamMessageResendTimeout) < 1
          /\ isStreamMessageResendTimeout' =
                 IF exhausted THEN Append(isStreamMessageResendTimeout, TRUE)
                 ELSE isStreamMessageResendTimeout
          /\ resendTimeouts' =
                 IF exhausted THEN resendTimeouts \cup {element.Content.MessageId}
                 ELSE resendTimeouts
          /\ Commit(d)
    /\ schedulerPc' = "sleep"
    /\ schedulerElement' = << >>
    /\ UNCHANGED << keyboard, codec, forwarder, iterationsSinceEnd, lastInput, lastRaw, inboundVars, outages, senders, lastAcknowledge, listenerPc, now >>

\* Session.TerminateSession: the TerminateSession call of the SSM API. It
\* touches neither the data channel nor the transport.
TerminateSession(d) == [d EXCEPT !.calls = Append(@, "TerminateSession")]

\* The task started by handleStreamMessageResendTimeout takes the value from
\* isStreamMessageResendTimeout, calls TerminateSession and ends.
ResendTimeoutReceived ==
    /\ listenerPc = "listening"
    /\ Len(isStreamMessageResendTimeout) > 0
    /\ isStreamMessageResendTimeout' = Tail(isStreamMessageResendTimeout)
    /\ listenerPc' = "terminated"
    /\ calls' = TerminateSession(DC).calls
    /\ UNCHANGED << keyboard, codec, forwarder, iterationsSinceEnd, lastInput, lastRaw, ExpectedSequenceNumber, StreamDataSequenceNumber,
                    OutgoingMessageBuffer, IncomingMessageBuffer, RoundTripTime,
                    RoundTripTimeVariation, RetransmissionTimeout, encryption,
                    encryptionEnabled, sessionType, sessionProperties, isSessionTypeSet,
                    isSessionEnded,
                    outputStreamHandlers, isSessionSpecificHandlerSet, ResendAttempt,
                    SessionType, wsUp, wire, connection, unlockedAccesses, acks, invocations, sendCalls, rttUpdates,
                    inboundVars, outages, senders, schedulerPc, schedulerElement,
                    resendTimeouts, lastAcknowledge, now >>

\* the sequence numbers an acknowledge of the agent can carry
AcknowledgedSequenceNumbers == 0..(MaxSends - 1)

\* The WebSocket reader delivers an acknowledge frame: OutputMessageHandler
\* passes it to HandleAcknowledgeMessage.
ReceiveAcknowledge ==
    /\ lastAcknowledge.count < MaxAcks
    /\ \E k \in AcknowledgedSequenceNumbers :
          /\ Commit(HandleAcknowledgeMessage(DC,
                 [ MessageType |-> AcknowledgeMessage,
                   Payload |-> [parses |-> TRUE, SequenceNumber |-> k] ]))
          /\ lastAcknowledge' = [count |-> lastAcknowledge.count + 1, SequenceNumber |-> k]
    /\ UNCHANGED << keyboard, codec, forwarder, iterationsSinceEnd, lastInput, lastRaw, isStreamMessageResendTimeout, inboundVars, outages, senders,
                    schedulerPc, schedulerElement, resendTimeouts, listenerPc, now >>

\* A running shell session whose keyboard task sends input: the retransmit
\* scheduler, the acknowledges of the agent, the clock.
ResendNext ==
    \/ KeyboardSends
    \/ Tick
    \/ SchedulerPeek
    \/ SchedulerResend
    \/ ResendTimeoutReceived
    \/ ReceiveAcknowledge

ResendSpec == ShellSessionRunning /\ [][ResendNext]_vars

\* The agent asks for encryption in its first frame: a KMSEncryption action
\* that succeeds turns encryption on.
ReceiveKmsRequests ==
    ReceiveStreamData({ f \in HandshakeFrames :
                          /\ f.SequenceNumber = ExpectedSequenceNumber
                          /\ f.SequenceNumber = 0
                          /\ f.PayloadType = HandshakeRequestPayloadType
                          /\ f.Payload.parses
                          /\ f.Payload.RequestedClientActions[1].ActionType = KMSEncryption })

\* the clock of a session that lasts long enough for a retransmission
MaxEarlyTime == MaxTime - 2

EarlyTick == Clock(MaxEarlyTime)

\* Callers send while the agent may turn encryption on, the connection
\* breaks and comes back, and the scheduler retransmits.
FailedSendNext ==
    \/ SendsInput
    \/ ReceiveKmsRequests
    \/ ConnectionLost
    \/ ConnectionRestored
    \/ EarlyTick
    \/ SchedulerPeek
    \/ SchedulerResend

FailedSendSpec == Init /\ [][FailedSendNext]_vars

\* the buffer of the k-th read of stdin when the read returned n bytes:
\* make([]byte, StdinBufferLimit) with the bytes of the read in front
StdinRead(k, n) == [ i \in 1..StdinBufferLimit |-> IF i <= n THEN 100 + k ELSE 0 ]

\* The reader goroutine of handleKeyboardInput, one read: a fresh buffer is
\* filled by reader.Read and stdinBytesLen is assigned the length the read
\* returned; the goroutine goes on to the send on the channel.
ReaderReads ==
    /\ keyboard.readerPc = "read"
    /\ Len(keyboard.reads) < MaxReads
    /\ \E n \in 1..StdinBufferLimit :
          LET stdinBytes == StdinRead(Len(keyboard.reads) + 1, n)
          IN keyboard' = [ keyboard EXCEPT
                             !.readerPc = "send",
                             !.readerBytes = stdinBytes,
                             !.stdinBytesLen = n,
                             !.reads = Append(@, [stdinBytes |-> stdinBytes, n |-> n]) ]
    /\ UNCHANGED << codec, forwarder, iterationsSinceEnd, lastInput, lastRaw, ExpectedSequenceNumber,
                    StreamDataSequenceNumber, OutgoingMessageBuffer,
                    IncomingMessageBuffer, RoundTripTime, RoundTripTimeVariation,
                    RetransmissionTimeout, encryption, encryptionEnabled, sessionType,
                    sessionProperties, calls, isSessionTypeSet, isSessionEnded,
                    outputStreamHandlers, isSessionSpecificHandlerSet, ResendAttempt,
                    SessionType, executePc, wsUp, wire, connection, unlockedAccesses, acks,
                    invocations, arrived, lastReturn, sendCalls, rttUpdates, outages,
                    outboundVars >>

\* ch <- stdinBytes meets case stdinBytes := <-ch: the channel has no buffer,
\* the loop takes the buffer and the reader goes back to read.
ChannelHandoff ==
    /\ keyboard.readerPc = "send"
    /\ keyboard.loopPc = "select"
    /\ keyboard' = [ keyboard EXCEPT !.readerPc = "read",
                                     !.readerBytes = << >>,
                                     !.loopPc = "slice",
                                     !.stdinBytes = keyboard.readerBytes ]
    /\ UNCHANGED << codec, forwarder, iterationsSinceEnd, lastInput, lastRaw, ExpectedSequenceNumber,
                    StreamDataSequenceNumber, OutgoingMessageBuffer,
                    IncomingMessageBuffer, RoundTripTime, RoundTripTimeVariation,
                    RetransmissionTimeout, encryption, encryptionEnabled, sessionType,
                    sessionProperties, calls, isSessionTypeSet, isSessionEnded,
                    outputStreamHandlers, isSessionSpecificHandlerSet, ResendAttempt,
                    SessionType, executePc, wsUp, wire, connection, unlockedAccesses, acks,
                    invocations, arrived, lastReturn, sendCalls, rttUpdates, outages,
                    outboundVars >>

\* The loop of handleKeyboardInput, the body of case stdinBytes := <-ch:
\* stdinBytes[:stdinBytesLen] is evaluated with the value stdinBytesLen has
\* now and is given to SendInputDataMessage; an error ends the loop.
KeyboardSendsChunk ==
    /\ keyboard.loopPc = "slice"
    /\ LET inputData == Plain(SubSeq(keyboard.stdinBytes, 1, keyboard.stdinBytesLen))
           d == SendInputDataMessage(DC, Output, inputData)
       IN /\ Commit(d)
          /\ keyboard' = [ keyboard EXCEPT
                             !.loopPc = IF d.err # NoError THEN "returned" ELSE "select",
                             !.stdinBytes = << >> ]
    /\ UNCHANGED << codec, forwarder, iterationsSinceEnd, lastInput, lastRaw, inboundVars, outages, outboundVars >>

\* The shell session at the keyboard: the reader goroutine reads stdin, the
\* loop sends what it is handed, the connection may break and come back.
KeyboardNext ==
    \/ ReaderReads
    \/ ChannelHandoff
    \/ KeyboardSendsChunk
    \/ ConnectionLost
    \/ ConnectionRestored

KeyboardSpec == ShellSessionRunning /\ [][KeyboardNext]_vars

\* The same session with an agent that acknowledges nothing, until it ends:
\* the service may close the channel, and the keyboard task returns once the
\* session is ended.
TimeoutNext ==
    \/ KeyboardSends
    \/ Tick
    \/ SchedulerPeek
    \/ SchedulerResend
    \/ ResendTimeoutReceived
    \/ ReceiveChannelClosed
    \/ KeyboardTimerSessionEnded

TimeoutSpec == ShellSessionRunning /\ [][TimeoutNext]_vars

\* The shell session with its resize loop, until it ends.
EndedNext ==
    \/ KeyboardSends
    \/ ResizeSends
    \/ Tick
    \/ SchedulerPeek
    \/ SchedulerResend
    \/ ResendTimeoutReceived
    \/ ReceiveChannelClosed
    \/ KeyboardTimerSessionEnded

EndedSpec == ShellSessionRunning /\ [][EndedNext]_vars

\* The same session with an agent that acknowledges nothing and a service that
\* does not close the channel: the scheduler goes on after the attempts of a
\* message are exhausted.
ExhaustedNext ==
    \/ KeyboardSends
    \/ LateTick
    \/ SchedulerPeek
    \/ SchedulerResend
    \/ ResendTimeoutReceived

ExhaustedSpec == ShellSessionRunning /\ [][ExhaustedNext]_vars

\* The scheduler, the listener of the resend timeout and the keyboard task
\* are goroutines that run when they can; the agent and the service owe the
\* client nothing.
TimeoutLive ==
    /\ TimeoutSpec
    /\ WF_vars(SchedulerPeek)
    /\ WF_vars(SchedulerResend)
    /\ WF_vars(ResendTimeoutReceived)
    /\ WF_vars(KeyboardTimerSessionEnded)

\* The inbound path of a session of an agent that performs no handshake.
\* ------------------------------------------------------ basic port forwarding
\* A port session after the handshake, with BasicPortForwarding initialized:
\* InitializeStreams opened the listener and accepted the first local
\* connection, and ReadStream is reading from it.
PortSessionRunning ==
    /\ ExpectedSequenceNumber = 0
    /\ StreamDataSequenceNumber = 0
    /\ OutgoingMessageBuffer = << >>
    /\ IncomingMessageBuffer = << >>
    /\ RoundTripTime = DefaultRoundTripTime * EstimatorScale
    /\ RoundTripTimeVariation = DefaultRoundTripTimeVariation * EstimatorScale
    /\ RetransmissionTimeout = DefaultTransmissionTimeout
    /\ encryption = "nil"
    /\ encryptionEnabled = FALSE
    /\ sessionType = PortPluginName
    /\ isSessionTypeSet = << >>
    /\ isSessionEnded = FALSE
    /\ isStreamMessageResendTimeout = << >>
    /\ outputStreamHandlers = << PluginHandlerName >>
    /\ isSessionSpecificHandlerSet = TRUE
    /\ ResendAttempt = << >>
    /\ SessionType = PortPluginName
    /\ executePc = "running"
    /\ wsUp = TRUE
    /\ wire = << >>
    /\ connection = OpenedConnection
    /\ unlockedAccesses = {}
    /\ acks = << >>
    /\ invocations = << >>
    /\ arrived = << >>
    /\ lastReturn = [SequenceNumber |-> 0, expected |-> 0, err |-> NoError]
    /\ outages = 0
    /\ senders = [t \in Tasks |-> IdleSender]
    /\ sendCalls = 0
    /\ schedulerPc = "sleep"
    /\ schedulerElement = << >>
    /\ rttUpdates = 0
    /\ resendTimeouts = {}
    /\ lastAcknowledge = [count |-> 0, SequenceNumber |-> -1]
    /\ listenerPc = "listening"
    /\ now = 0
    /\ sessionProperties = ""
    /\ calls = << >>
    /\ lastInput = [count |-> 0, payloadType |-> "", inputData |-> Plain(<< >>)]
    /\ lastRaw = [count |-> 0, input |-> NoRawMessage, result |-> NoError]
    /\ codec = NoCodec
    /\ keyboard = KeyboardStarted
    /\ forwarder = [pc |-> "reading", stream |-> 1, open |-> {1}]
    /\ iterationsSinceEnd = [scheduler |-> 0, resize |-> 0]

\* BasicPortForwarding.ReadStream, a read that returns bytes: they are sent
\* as an Output message; an error of the send ends ReadStream.
ReadStreamForwards ==
    /\ forwarder.pc = "reading"
    /\ sendCalls < MaxSends
    /\ LET d == SendInputDataMessage(DC, Output, Plain(<< 104 >>))
       IN /\ Commit(d)
          /\ forwarder' = IF d.err # NoError
                          THEN [forwarder EXCEPT !.pc = "returned"] ELSE forwarder
    /\ UNCHANGED << keyboard, codec, iterationsSinceEnd, lastInput, lastRaw, inboundVars, outages,
                    outboundVars >>

\* BasicPortForwarding.ReadStream, a read that fails because the local peer
\* closed the connection: the DisconnectToPort flag is sent; an error of the
\* send ends ReadStream; otherwise reconnect closes the connection and waits
\* in Accept on the listener.
ReadStreamReadFails ==
    /\ forwarder.pc = "reading"
    /\ sendCalls < MaxSends
    /\ LET d == SendFlag(DC, DisconnectToPort)
       IN /\ Commit(d)
          /\ forwarder' = IF d.err # NoError
                          THEN [forwarder EXCEPT !.pc = "returned"]
                          ELSE [forwarder EXCEPT !.pc = "accepting",
                                                 !.open = @ \ {forwarder.stream}]
    /\ UNCHANGED << keyboard, codec, iterationsSinceEnd, lastInput, lastRaw, inboundVars, outages,
                    outboundVars >>

\* BasicPortForwarding.reconnect, Accept returns the connection of the next
\* local peer: ReadStream goes on reading from it.
ReconnectAccepts ==
    /\ forwarder.pc = "accepting"
    /\ forwarder' = [ pc |-> "reading", stream |-> forwarder.stream + 1,
                      open |-> forwarder.open \cup {forwarder.stream + 1} ]
    /\ UNCHANGED << keyboard, codec, iterationsSinceEnd, lastInput, lastRaw, ExpectedSequenceNumber,
                    StreamDataSequenceNumber, OutgoingMessageBuffer,
                    IncomingMessageBuffer, RoundTripTime, RoundTripTimeVariation,
                    RetransmissionTimeout, encryption, encryptionEnabled, sessionType,
                    sessionProperties, calls, isSessionTypeSet, isSessionEnded,
                    outputStreamHandlers, isSessionSpecificHandlerSet, ResendAttempt,
                    SessionType, executePc, wsUp, wire, connection, unlockedAccesses, acks, invocations,
                    arrived, lastReturn, sendCalls, rttUpdates, outages, outboundVars >>

\* Basic port forwarding with an agent that acknowledges, over a connection
\* that can break and come back.
PortNext ==
    \/ ReadStreamForwards
    \/ ReadStreamReadFails
    \/ ReconnectAccepts
    \/ ReceiveAcknowledge
    \/ ConnectionLost
    \/ ConnectionRestored

PortSpec == PortSessionRunning /\ [][PortNext]_vars

\* -------------------------------------------------------------- reconnect
\* Session.GetResumeSessionParams: the ResumeSession call fails, or its output
\* has no token, or it has one; the tokens are numbered by the call that
\* returned them.
GetResumeSessionParams(c, outcome) ==
    [ token |-> IF outcome = "token"
                THEN StartSessionToken + c.resumeCalls + 1 ELSE EmptyToken,
      err |-> outcome = "error" ]

\* Session.ResumeSessionHandler up to the call of Reconnect, ignoring what
\* GetResumeSessionParams returned
ResumeSessionHandlerAlwaysReconnecting(c, outcome) ==
    LET params == GetResumeSessionParams(c, outcome)
    IN [ c EXCEPT !.TokenValue = params.token,
                  !.resumeCalls = @ + 1,
                  !.log = Append(@, [ op |-> "ResumeSession", token |-> params.token,
                                      ok |-> ~params.err ]),
                  !.ChannelToken = params.token,
                  !.pc = "resumed" ]

\* Session.ResumeSessionHandler up to the call of Reconnect: the token of
\* the session is assigned whatever the call returned; on an error and on an
\* empty token the handler returns; otherwise the token of the channel is
\* set and Reconnect is called.
ResumeSessionHandler(c, outcome) ==
    LET params == GetResumeSessionParams(c, outcome)
        c1 == [ c EXCEPT !.TokenValue = params.token,
                         !.resumeCalls = @ + 1,
                         !.log = Append(@, [ op |-> "ResumeSession",
                                             token |-> params.token,
                                             ok |-> ~params.err ]) ]
    IN IF params.err \/ params.token = EmptyToken
       THEN c1
       ELSE [ c1 EXCEPT !.ChannelToken = params.token, !.pc = "resumed" ]

\* DataChannel.Close of DataChannel.Reconnect: an error of the close is
\* logged, Reconnect goes on.
WsChannelClose(c) ==
    [ c EXCEPT !.pc = "closed",
               !.log = Append(@, [ op |-> "Close", token |-> c.ChannelToken,
                                   ok |-> TRUE ]) ]

\* wsChannel.Open of DataChannel.Open: when the dial fails Open returns the
\* error and Reconnect returns it to the retryer.
WsChannelOpen(c, dialed) ==
    [ c EXCEPT !.pc = IF dialed THEN "dialed" ELSE "open",
               !.first = IF dialed THEN "none" ELSE @,
               !.log = Append(@, [ op |-> "Dial", token |-> c.ChannelToken,
                                   ok |-> dialed ]) ]

\* DataChannel.Reconnect after an error of the transport, first half:
\* Close, then wsChannel.Open of DataChannel.Open dials the new connection.
\* From here on a write to the transport succeeds.
ReconnectOpensWebsocket ==
    /\ ~wsUp
    /\ connection.pc = "open"
    /\ wsUp' = TRUE
    /\ connection' = WsChannelOpen(WsChannelClose(
                         ResumeSessionHandler(connection, "token")), TRUE)
    /\ UNCHANGED << keyboard, codec, forwarder, iterationsSinceEnd, lastInput, lastRaw, ExpectedSequenceNumber,
                    StreamDataSequenceNumber, OutgoingMessageBuffer,
                    IncomingMessageBuffer, RoundTripTime, RoundTripTimeVariation,
                    RetransmissionTimeout, encryption, encryptionEnabled, sessionType,
                    sessionProperties, calls, isSessionTypeSet, isSessionEnded,
                    outputStreamHandlers, isSessionSpecificHandlerSet, ResendAttempt,
                    SessionType, executePc, wire, unlockedAccesses, acks, invocations, arrived,
                    lastReturn, sendCalls, rttUpdates, outages, outboundVars >>

\* DataChannel.Open, second half: FinalizeDataChannelHandshake sends the
\* OpenDataChannelInput as a text frame. When the connection broke again the
\* write fails and the retryer calls Reconnect once more.
FinalizeDataChannelHandshake ==
    /\ connection.pc = "dialed"
    /\ connection' = [ connection EXCEPT
                         !.pc = "open",
                         !.first = IF wsUp /\ @ = "none" THEN "text" ELSE @,
                         !.log = Append(@, [ op |-> "OpenDataChannelInput",
                                             token |-> connection.ChannelToken,
                                             ok |-> wsUp ]) ]
    /\ UNCHANGED << keyboard, codec, forwarder, iterationsSinceEnd, lastInput, lastRaw, ExpectedSequenceNumber,
                    StreamDataSequenceNumber, OutgoingMessageBuffer,
                    IncomingMessageBuffer, RoundTripTime, RoundTripTimeVariation,
                    RetransmissionTimeout, encryption, encryptionEnabled, sessionType,
                    sessionProperties, calls, isSessionTypeSet, isSessionEnded,
                    outputStreamHandlers, isSessionSpecificHandlerSet, ResendAttempt,
                    SessionType, executePc, wsUp, wire, unlockedAccesses, acks, invocations, arrived,
                    lastReturn, sendCalls, rttUpdates, outages, outboundVars >>

\* A running session whose connection breaks and is dialed again while the
\* keyboard task and the scheduler go on.
ReconnectNext ==
    \/ KeyboardSends
    \/ Tick
    \/ SchedulerPeek
    \/ SchedulerResend
    \/ ResendTimeoutReceived
    \/ ConnectionLost
    \/ ReconnectOpensWebsocket
    \/ FinalizeDataChannelHandshake

ReconnectSpec == ShellSessionRunning /\ [][ReconnectNext]_vars

\* The callback of the channel for an error of the transport, and each
\* further call the retryer makes after an error: ResumeSessionHandler asks
\* for a token.
ResumeSessionCalled ==
    /\ ~wsUp
    /\ connection.pc = "open"
    /\ connection.resumeCalls < MaxResumes
    /\ \E outcome \in {"error", "empty", "token"} :
           connection' = ResumeSessionHandler(connection, outcome)
    /\ UNCHANGED << keyboard, codec, forwarder, iterationsSinceEnd, lastInput, lastRaw, ExpectedSequenceNumber,
                    StreamDataSequenceNumber, OutgoingMessageBuffer,
                    IncomingMessageBuffer, RoundTripTime, RoundTripTimeVariation,
                    RetransmissionTimeout, encryption, encryptionEnabled, sessionType,
                    sessionProperties, calls, isSessionTypeSet, isSessionEnded,
                    outputStreamHandlers, isSessionSpecificHandlerSet, ResendAttempt,
                    SessionType, executePc, wsUp, wire, unlockedAccesses, acks, invocations, arrived,
                    lastReturn, sendCalls, rttUpdates, outages, outboundVars >>

\* DataChannel.Reconnect, first statement: the channel is closed.
ReconnectCloses ==
    /\ connection.pc = "resumed"
    /\ connection' = WsChannelClose(connection)
    /\ UNCHANGED << keyboard, codec, forwarder, iterationsSinceEnd, lastInput, lastRaw, ExpectedSequenceNumber,
                    StreamDataSequenceNumber, OutgoingMessageBuffer,
                    IncomingMessageBuffer, RoundTripTime, RoundTripTimeVariation,
                    RetransmissionTimeout, encryption, encryptionEnabled, sessionType,
                    sessionProperties, calls, isSessionTypeSet, isSessionEnded,
                    outputStreamHandlers, isSessionSpecificHandlerSet, ResendAttempt,
                    SessionType, executePc, wsUp, wire, unlockedAccesses, acks, invocations, arrived,
                    lastReturn, sendCalls, rttUpdates, outages, outboundVars >>

\* DataChannel.Open of DataChannel.Reconnect, first statement: the dial
\* succeeds and writes are taken again, or it fails.
OpenDials ==
    /\ connection.pc = "closed"
    /\ \E dialed \in BOOLEAN :
           /\ connection' = WsChannelOpen(connection, dialed)
           /\ wsUp' = dialed
    /\ UNCHANGED << keyboard, codec, forwarder, iterationsSinceEnd, lastInput, lastRaw, ExpectedSequenceNumber,
                    StreamDataSequenceNumber, OutgoingMessageBuffer,
                    IncomingMessageBuffer, RoundTripTime, RoundTripTimeVariation,
                    RetransmissionTimeout, encryption, encryptionEnabled, sessionType,
                    sessionProperties, calls, isSessionTypeSet, isSessionEnded,
                    outputStreamHandlers, isSessionSpecificHandlerSet, ResendAttempt,
                    SessionType, executePc, wire, unlockedAccesses, acks, invocations, arrived,
                    lastReturn, sendCalls, rttUpdates, outages, outboundVars >>

\* A running session whose connection breaks; the session resumes it while
\* the keyboard task goes on sending.
ResumeNext ==
    \/ KeyboardSends
    \/ ConnectionLost
    \/ ResumeSessionCalled
    \/ ReconnectCloses
    \/ OpenDials
    \/ FinalizeDataChannelHandshake

ResumeSpec == ShellSessionRunning /\ [][ResumeNext]_vars

StreamNext ==
    \/ ReceiveData
    \/ ExecuteReceivesSessionType
    \/ ConnectionLost
    \/ ConnectionRestored

StreamSpec == Init /\ [][StreamNext]_vars

\* terminal output of an agent that runs ahead of the client: one sequence
\* number more than IncomingMessageBuffer has room for, after the expected one
FramesAhead ==
    { AgentFrame(n, Output, Plain(<<104>>)) : n \in 0..(IncomingMessageBufferCapacity + 1) }

ReceiveAhead == ReceiveStreamData(FramesAhead)

\* The inbound path with an agent that runs ahead of the client.
AheadNext ==
    \/ ReceiveAhead
    \/ ExecuteReceivesSessionType
    \/ ConnectionLost
    \/ ConnectionRestored

AheadSpec == Init /\ [][AheadNext]_vars

\* The inbound path of a session, handshake included.
InboundNext ==
    \/ ReceiveData
    \/ ReceiveCipher
    \/ ReceiveHandshake
    \/ ExecuteReceivesSessionType
    \/ ConnectionLost
    \/ ConnectionRestored

InboundSpec == Init /\ [][InboundNext]_vars

\* ------------------------------------------------------------- observations
\* the acknowledge content that names an inbound frame
AcknowledgeOf(frame) ==
    [ MessageType |-> AcknowledgeMessage,
      AcknowledgeMessageType |-> frame.MessageType,
      MessageId |-> frame.MessageId,
      SequenceNumber |-> frame.SequenceNumber,
      IsSequentialMessage |-> TRUE ]

\* how many acknowledges of a frame the transport took, and how many it refused
AcksWritten(frame) == BagCount(acks, [frame |-> AcknowledgeOf(frame), ok |-> TRUE])
AcksFailed(frame) == BagCount(acks, [frame |-> AcknowledgeOf(frame), ok |-> FALSE])

\* the acknowledges the transport took
WrittenAcks == [e \in {x \in DOMAIN acks : x.ok} |-> acks[e]]

\* the calls of output stream handlers, and the sequence numbers they were
\* called on, in order
Handled == SelectSeq(invocations, LAMBDA inv : inv.handler # "none")
HandledSequenceNumbers == [i \in 1..Len(Handled) |-> Handled[i].SequenceNumber]

\* the output stream handlers that get registered
Handlers == {ProcessFirstMessageName, PluginHandlerName}

\* the calls of a handler on a sequence number that returned ready and no error
SuccessfulCalls(sequenceNumber, handler) ==
    { i \in DOMAIN invocations :
        /\ invocations[i].SequenceNumber = sequenceNumber
        /\ invocations[i].handler = handler
        /\ invocations[i].ready
        /\ invocations[i].err = NoError }

\* this step is the arrival of the frame
Arrival(frame) == arrived' = BagAdd(arrived, frame)

\* the frames with sequence numbers 0..N-1, all terminal output, arrived once each
ArrivedOnce(N) ==
    /\ \A f \in DOMAIN arrived : arrived[f] = 1 /\ f.PayloadType = Output
    /\ { f.SequenceNumber : f \in DOMAIN arrived } = 0..(N - 1)

\* ------------------------------------------------------------------- codec
\* A message is serialized: the one call of the codec of a behaviour
SerializesMessage ==
    /\ codec.pc = "idle"
    /\ \E clientMessage \in ClientMessages :
          codec' = [ NoCodec EXCEPT !.pc = "serialized",
                                    !.result = SerializeClientMessage(clientMessage) ]
    /\ UNCHANGED << keyboard, ExpectedSequenceNumber, StreamDataSequenceNumber,
                    OutgoingMessageBuffer, IncomingMessageBuffer, RoundTripTime,
                    RoundTripTimeVariation, RetransmissionTimeout, encryption,
                    encryptionEnabled, sessionType, isSessionTypeSet, isSessionEnded,
                    isStreamMessageResendTimeout, outputStreamHandlers,
                    isSessionSpecificHandlerSet, ResendAttempt, SessionType,
                    executePc, wsUp, wire, connection, unlockedAccesses, acks, invocations, arrived, lastReturn,
                    outages, senders, sendCalls, schedulerPc, schedulerElement,
                    rttUpdates, resendTimeouts, lastAcknowledge, listenerPc, now,
                    sessionProperties, calls, lastInput, lastRaw, forwarder,
                    iterationsSinceEnd >>

\* The bytes SerializeClientMessage returned without an error are deserialized
DeserializesResult ==
    /\ codec.pc = "serialized"
    /\ codec.result.err = NoError
    /\ codec' = [ codec EXCEPT !.pc = "deserialized",
                               !.decoded = DeserializeClientMessageBytes(codec.result.bytes) ]
    /\ UNCHANGED << keyboard, ExpectedSequenceNumber, StreamDataSequenceNumber,
                    OutgoingMessageBuffer, IncomingMessageBuffer, RoundTripTime,
                    RoundTripTimeVariation, RetransmissionTimeout, encryption,
                    encryptionEnabled, sessionType, isSessionTypeSet, isSessionEnded,
                    isStreamMessageResendTimeout, outputStreamHandlers,
                    isSessionSpecificHandlerSet, ResendAttempt, SessionType,
                    executePc, wsUp, wire, connection, unlockedAccesses, acks, invocations, arrived, lastReturn,
                    outages, senders, sendCalls, schedulerPc, schedulerElement,
                    rttUpdates, resendTimeouts, lastAcknowledge, listenerPc, now,
                    sessionProperties, calls, lastInput, lastRaw, forwarder,
                    iterationsSinceEnd >>

CodecNext ==
    \/ SerializesMessage
    \/ DeserializesResult

CodecSpec == Init /\ [][CodecNext]_vars

\* ------------------------------------------------------------------- claims
\* C1: when the frames with sequence numbers 0..N-1 (N-1 within the capacity
\* of IncomingMessageBuffer) arrived once each, in any order, every write to
\* the transport succeeded and ExpectedSequenceNumber has reached N, then the
\* output stream handlers were called on 0,1,...,N-1 in this order, once each.
C1_InOrderDelivery ==
    \A N \in 1..MaxSeq :
        ( /\ N - 1 <= IncomingMessageBufferCapacity
          /\ ArrivedOnce(N)
          /\ outages = 0
          /\ ExpectedSequenceNumber = N )
        => HandledSequenceNumbers = [i \in 1..N |-> i - 1]

\* the arrival of the frame accepts it: it is the expected one and
\* ExpectedSequenceNumber moves past it, or it is ahead of the expected one
\* and IncomingMessageBuffer, which has room, holds it
Accepted(frame) ==
    \/ /\ frame.SequenceNumber = ExpectedSequenceNumber
       /\ ExpectedSequenceNumber' > ExpectedSequenceNumber
    \/ /\ frame.SequenceNumber > ExpectedSequenceNumber
       /\ Cardinality(DOMAIN IncomingMessageBuffer) < IncomingMessageBufferCapacity
       /\ frame.SequenceNumber \in DOMAIN IncomingMessageBuffer'

\* C2: while every write to the transport succeeds, the arrival of a frame
\* that is accepted adds exactly one acknowledge, with the MessageType,
\* MessageId and SequenceNumber of the frame and IsSequentialMessage = true,
\* and nothing else is acknowledged: not a frame taken out of
\* IncomingMessageBuffer later, not a frame that is not accepted.
C2_AcceptedFrameAcknowledged ==
    [][ \A f \in DOMAIN arrived' :
          (Arrival(f) /\ outages' = 0) =>
             WrittenAcks' = IF Accepted(f)
                            THEN BagAdd(WrittenAcks, [frame |-> AcknowledgeOf(f), ok |-> TRUE])
                            ELSE WrittenAcks ]_vars

C4_LateFrameDropped ==
    [][ \A f \in DOMAIN arrived' :
          (Arrival(f) /\ f.SequenceNumber < ExpectedSequenceNumber) =>
             /\ invocations' = invocations
             /\ acks' = acks
             /\ wire' = wire
             /\ ExpectedSequenceNumber' = ExpectedSequenceNumber
             /\ IncomingMessageBuffer' = IncomingMessageBuffer ]_vars

\* the last frame that arrived had a sequence number below the expected one
C4_LateFrameArrived ==
    /\ lastReturn.SequenceNumber >= 0
    /\ lastReturn.SequenceNumber < lastReturn.expected

\* C5: when the output stream handlers report "not ready" for a frame, in
\* HandleOutputMessage or in ProcessIncomingMessageBufferItems,
\* ExpectedSequenceNumber does not move past the frame and no acknowledge is
\* sent for it.
C5_NotReadyKeepsFrame ==
    [][ \A i \in (Len(invocations) + 1)..Len(invocations') :
          ~invocations'[i].ready =>
             /\ ExpectedSequenceNumber' <= invocations'[i].SequenceNumber
             /\ \A e \in DOMAIN acks' :
                    e.frame.SequenceNumber = invocations'[i].SequenceNumber
                        => BagCount(acks, e) = acks'[e] ]_vars

\* C6: when the handling of the frame with the expected sequence number
\* fails (handler error, decryption error, error of the handler of a
\* handshake payload), no acknowledge was sent and ExpectedSequenceNumber is
\* unchanged.
C6_FailedFrameNotAcknowledged ==
    [][ \A f \in DOMAIN arrived' :
          ( /\ Arrival(f)
            /\ f.SequenceNumber = ExpectedSequenceNumber
            /\ lastReturn'.err \notin {NoError, "send", "decrypt buffered"} )
          => /\ WrittenAcks' = WrittenAcks
             /\ ExpectedSequenceNumber' = ExpectedSequenceNumber ]_vars

\* C7: the frames the transport took from concurrent calls of
\* SendInputDataMessage carry strictly increasing sequence numbers in the order
\* they were handed over, and no two messages of OutgoingMessageBuffer have the
\* same sequence number, as buffer entry or in their content.
C7_DistinctIncreasingSequenceNumbers ==
    /\ \A i, j \in DOMAIN wire :
          (i < j /\ wire[i].ok /\ wire[j].ok)
              => wire[i].frame.SequenceNumber < wire[j].frame.SequenceNumber
    /\ \A i, j \in DOMAIN OutgoingMessageBuffer :
          i # j => /\ OutgoingMessageBuffer[i].SequenceNumber
                        # OutgoingMessageBuffer[j].SequenceNumber
                   /\ OutgoingMessageBuffer[i].Content.SequenceNumber
                        # OutgoingMessageBuffer[j].Content.SequenceNumber

\* a call of SendInputDataMessage returns nil in this step
ReturnsNil(task) == senders'[task].done = senders[task].done + 1

\* C8: StreamDataSequenceNumber never decreases, and a call of
\* SendInputDataMessage that returns nil leaves it one above what it was.
C8_SequenceNumberCountsCalls ==
    [][ /\ StreamDataSequenceNumber' >= StreamDataSequenceNumber
        /\ \A task \in Tasks :
               ReturnsNil(task) => StreamDataSequenceNumber' = StreamDataSequenceNumber + 1
      ]_vars

\* the positions of OutgoingMessageBuffer that hold the sequence number
HeldAt(sequenceNumber) ==
    { i \in DOMAIN OutgoingMessageBuffer :
        OutgoingMessageBuffer[i].SequenceNumber = sequenceNumber }

\* C9: an acknowledge for a sequence number that OutgoingMessageBuffer holds
\* removes that message and nothing else and updates RoundTripTime,
\* RoundTripTimeVariation and RetransmissionTimeout once, from the LastSentTime
\* of the message; an acknowledge for a sequence number it does not hold
\* changes neither the buffer nor the estimators.
C9_AcknowledgeRemovesMessage ==
    [][ lastAcknowledge'.count = lastAcknowledge.count + 1 =>
          LET held == HeldAt(lastAcknowledge'.SequenceNumber)
          IN IF held # {}
             THEN LET first == CHOOSE i \in held : \A j \in held : i <= j
                      sample == (now - OutgoingMessageBuffer[first].LastSentTime)
                                    * EstimatorScale
                      rttv == (((RTTVDivisor - 1) * RoundTripTimeVariation)
                               + Abs(RoundTripTime - sample)) \div RTTVDivisor
                      rtt == (((RTTDivisor - 1) * RoundTripTime) + sample) \div RTTDivisor
                  IN /\ OutgoingMessageBuffer' =
                            SubSeq(OutgoingMessageBuffer, 1, first - 1)
                              \o SubSeq(OutgoingMessageBuffer, first + 1,
                                        Len(OutgoingMessageBuffer))
                     /\ rttUpdates' = rttUpdates + 1
                     /\ RoundTripTimeVariation' = rttv
                     /\ RoundTripTime' = rtt
                     /\ RetransmissionTimeout' <= MaxTransmissionTimeout
             ELSE /\ OutgoingMessageBuffer' = OutgoingMessageBuffer
                  /\ rttUpdates' = rttUpdates
                  /\ RoundTripTimeVariation' = RoundTripTimeVariation
                  /\ RoundTripTime' = RoundTripTime
                  /\ RetransmissionTimeout' = RetransmissionTimeout ]_vars

\* an acknowledge removed a message and updated the estimators, another one
\* found no message
C9_AcknowledgedAndRepeated ==
    /\ lastAcknowledge.count = 2
    /\ rttUpdates = 1
    /\ Len(OutgoingMessageBuffer) < StreamDataSequenceNumber

\* how many times the scheduler sent the message again
Resends(messageId) ==
    Cardinality({ i \in DOMAIN wire : wire[i].frame.MessageId = messageId }) - 1

\* C10: as long as the scheduler has not written to
\* isStreamMessageResendTimeout for a message, it has sent the message again
\* at most ResendMaxAttempt times.
C10_ResendCap ==
    \A messageId \in DOMAIN ResendAttempt :
        messageId \notin resendTimeouts => Resends(messageId) <= ResendMaxAttempt

\* the scheduler sent a message again ResendMaxAttempt times and, at the next
\* resend, wrote to isStreamMessageResendTimeout
C10_ResendCapReached ==
    \E messageId \in resendTimeouts : Resends(messageId) = ResendMaxAttempt + 1

\* the first transmission of the message with the MessageId
FirstTransmission(messageId) ==
    wire[CHOOSE i \in DOMAIN wire :
            /\ wire[i].frame.MessageId = messageId
            /\ \A j \in DOMAIN wire : wire[j].frame.MessageId = messageId => i <= j].frame

\* C11: every retransmission of the scheduler hands to the transport the frame
\* of the first transmission of that message, and the message is the head of
\* OutgoingMessageBuffer when it is retransmitted; a message that an
\* acknowledge has removed is not retransmitted.
C11_RetransmitsHeadUnchanged ==
    [][ (schedulerPc = "resend" /\ schedulerPc' = "sleep") =>
          /\ Len(wire') = Len(wire) + 1
          /\ wire'[Len(wire')].frame = FirstTransmission(wire'[Len(wire')].frame.MessageId)
          /\ Len(OutgoingMessageBuffer) > 0
          /\ Head(OutgoingMessageBuffer).Content = wire'[Len(wire')].frame
      ]_vars

\* the calls the log of the session records
Called(name) == \E i \in DOMAIN calls : calls[i] = name

\* Execute has returned to its caller
ExecuteReturned == executePc \in {"returned", "returnedError", "failed"}

\* C12: once the resend timeout is signaled, TerminateSession is called, the
\* transport is closed and Execute returns.
C12_ResendTimeoutEndsSession ==
    (Len(isStreamMessageResendTimeout) > 0)
        ~> (Called("TerminateSession") /\ Called("Close") /\ ExecuteReturned)

\* the step is the arrival of this frame with the expected sequence number,
\* and its handling returned no error
Processed(frame) ==
    /\ Arrival(frame)
    /\ frame.SequenceNumber = ExpectedSequenceNumber
    /\ lastReturn'.err = NoError

HandshakeCompleteFrames ==
    { f \in HandshakeFrames : f.PayloadType = HandshakeCompletePayloadType }

\* a HandshakeResponse on the wire reports a SessionType action that succeeded
SessionTypeSetByRequest ==
    \E i \in DOMAIN wire :
        /\ wire[i].frame.PayloadType = HandshakeResponsePayloadType
        /\ \E j \in DOMAIN wire[i].frame.Payload.json.ProcessedClientActions :
              LET processed == wire[i].frame.Payload.json.ProcessedClientActions[j]
              IN processed.ActionType = SessionTypeAction /\ processed.ActionStatus = Success

\* Execute takes a value from isSessionTypeSet: on false it returns the error
\* and registers no handler; on true it takes the session type of the channel
\* and registers the handler of the plugin.
ExecuteFollowsSignal ==
    (executePc = "waitSessionType" /\ executePc' \in {"running", "failed"}) =>
        /\ isSessionTypeSet # << >>
        /\ isSessionTypeSet' = Tail(isSessionTypeSet)
        /\ IF Head(isSessionTypeSet)
           THEN /\ executePc' = "running"
                /\ SessionType' = sessionType
                /\ outputStreamHandlers' = Append(outputStreamHandlers, PluginHandlerName)
                /\ isSessionSpecificHandlerSet'
           ELSE /\ executePc' = "failed"
                /\ SessionType' = SessionType
                /\ outputStreamHandlers' = outputStreamHandlers
                /\ isSessionSpecificHandlerSet' = isSessionSpecificHandlerSet

ShellSessionTypes ==
    {ShellPluginName, InteractiveCommandsPluginName, NonInteractiveCommandsPluginName}

\* C14: a SessionType action stores Standard_Stream for Standard_Stream,
\* InteractiveCommands and NonInteractiveCommands, stores Port for Port, and
\* for any other value leaves session type and session properties as they
\* were and is reported with status Failed.
C14_SessionTypeActionStored ==
    [][ \A f \in SessionTypeFrames :
          Processed(f) =>
            LET req == f.Payload.RequestedClientActions[1].ActionParameters
                response == wire'[Len(wire')].frame
                processed == response.Payload.json.ProcessedClientActions
            IN /\ Len(wire') = Len(wire) + 1
               /\ response.PayloadType = HandshakeResponsePayloadType
               /\ Len(processed) = 1
               /\ processed[1].ActionType = SessionTypeAction
               /\ req.SessionType \in ShellSessionTypes =>
                      /\ sessionType' = ShellPluginName
                      /\ sessionProperties' = req.Properties
                      /\ processed[1].ActionStatus = Success
               /\ req.SessionType = PortPluginName =>
                      /\ sessionType' = PortPluginName
                      /\ sessionProperties' = req.Properties
                      /\ processed[1].ActionStatus = Success
               /\ req.SessionType \notin ShellSessionTypes \cup {PortPluginName} =>
                      /\ sessionType' = sessionType
                      /\ sessionProperties' = sessionProperties
                      /\ processed[1].ActionStatus = Failed
      ]_vars

\* C14 witness: after a request for Port with properties p1, requests for
\* InteractiveCommands with properties p2 and for an unknown type arrived; the
\* session type is Standard_Stream with properties p2.
C14_CollapsedThenUnknown ==
    /\ sessionType = ShellPluginName
    /\ sessionProperties = "p2"
    /\ \E f \in SessionTypeFrames :
          /\ f \in DOMAIN arrived
          /\ f.SequenceNumber = 0
          /\ f.Payload.RequestedClientActions[1].ActionParameters =
                 [SessionType |-> PortPluginName, Properties |-> "p1"]
    /\ \E f \in SessionTypeFrames :
          /\ f \in DOMAIN arrived
          /\ f.SequenceNumber = 1
          /\ f.Payload.RequestedClientActions[1].ActionParameters =
                 [SessionType |-> InteractiveCommandsPluginName, Properties |-> "p2"]
    /\ \E f \in SessionTypeFrames :
          /\ f \in DOMAIN arrived
          /\ f.SequenceNumber = 2
          /\ f.Payload.RequestedClientActions[1].ActionParameters.SessionType = "Unknown"

\* a HandshakeRequest frame whose payload deserializes
ParsedHandshakeRequest(frame) ==
    frame.PayloadType = HandshakeRequestPayloadType /\ frame.Payload.parses

\* the sequence numbers ExpectedSequenceNumber passes in the step whose frame
\* is a HandshakeRequest that parses: the frame that arrives, or a frame that
\* waited in IncomingMessageBuffer
ConsumedHandshakeRequests ==
    { k \in ExpectedSequenceNumber..(ExpectedSequenceNumber' - 1) :
        IF k = ExpectedSequenceNumber
        THEN \E f \in HandshakeFrames :
                Arrival(f) /\ f.SequenceNumber = k /\ ParsedHandshakeRequest(f)
        ELSE /\ k \in DOMAIN IncomingMessageBuffer
             /\ ParsedHandshakeRequest(IncomingMessageBuffer[k].Content) }

\* the HandshakeResponse frames sent in the step
HandshakeResponsesSent ==
    { i \in (Len(wire) + 1)..Len(wire') :
        /\ wire'[i].frame.MessageType = InputStreamMessage
        /\ wire'[i].frame.PayloadType = HandshakeResponsePayloadType }

\* the response reports the actions of the request in their order, and lists
\* an error for each action that did not succeed
Answers(response, request) ==
    LET processed == response.Payload.json.ProcessedClientActions
        requested == request.Payload.RequestedClientActions
    IN /\ Len(processed) = Len(requested)
       /\ \A j \in DOMAIN requested : processed[j].ActionType = requested[j].ActionType
       /\ Len(response.Payload.json.Errors) =
              Cardinality({ j \in DOMAIN processed : processed[j].ActionStatus # Success })

\* C15: for every HandshakeRequest that parses exactly one HandshakeResponse
\* is sent as a sequenced input_stream_data frame; it holds one processed
\* action per requested action in request order, and one error string per
\* failed action.
C15_OneResponsePerHandshakeRequest ==
    [][ /\ Cardinality(HandshakeResponsesSent) = Cardinality(ConsumedHandshakeRequests)
        /\ \A f \in HandshakeFrames :
              (Processed(f) /\ ParsedHandshakeRequest(f)) =>
                  \E i \in HandshakeResponsesSent :
                      /\ Answers(wire'[i].frame, f)
                      /\ wire'[i].frame.SequenceNumber = StreamDataSequenceNumber
      ]_vars

\* the step is a call of SendInputDataMessage that put a frame on the wire
PayloadSent ==
    /\ lastInput'.count = lastInput.count + 1
    /\ Len(wire') = Len(wire) + 1

\* C16 (as amended): with encryption off the payload on the wire is the
\* plaintext (after the rewrite of a lone line feed) for every payload type;
\* with encryption on it is the output of the encrypter for payload type
\* Output, and the plaintext for every other payload type, StdErr and ExitCode
\* included.
C16_OutboundEncryptsOutputOnly ==
    [][ PayloadSent =>
          LET sent == wire'[Len(wire')].frame
              plaintext == RewriteEnter(lastInput'.inputData)
          IN /\ sent.PayloadType = lastInput'.payloadType
             /\ IF encryptionEnabled /\ sent.PayloadType = Output
                THEN sent.Payload = Encrypt(plaintext) /\ sent.Payload # plaintext
                ELSE sent.Payload = plaintext
      ]_vars

\* C16 witness: with encryption on, a StdErr payload went out as plaintext.
C16_StdErrSentWithEncryptionOn ==
    /\ encryptionEnabled
    /\ lastInput.count > 0
    /\ lastInput.payloadType = StdErr
    /\ Len(wire) > 0
    /\ wire[Len(wire)].frame.PayloadType = StdErr
    /\ wire[Len(wire)].frame.Payload = lastInput.inputData

\* C16 (as stated): with encryption on the payload on the wire differs from
\* the plaintext for Output, StdErr and ExitCode and equals it for every other
\* payload type; with encryption off it equals the plaintext.
C16_OutboundEncryptsDecryptedTypes ==
    [][ PayloadSent =>
          LET sent == wire'[Len(wire')].frame
              plaintext == RewriteEnter(lastInput'.inputData)
          IN IF encryptionEnabled /\ sent.PayloadType \in {Output, StdErr, ExitCode}
             THEN sent.Payload # plaintext
             ELSE sent.Payload = plaintext
      ]_vars

\* the step is the arrival, with the expected sequence number and on a
\* connection that is up, of the first frame of terminal output of a session
\* whose type no handshake set
FirstOutputArrives(frame) ==
    /\ frame.PayloadType = Output
    /\ Arrival(frame)
    /\ frame.SequenceNumber = ExpectedSequenceNumber
    /\ wsUp
    /\ sessionType = ""
    /\ \A g \in DOMAIN arrived : g.PayloadType # Output

\* C17: in a session whose type no handshake set, the first in-order Output
\* frame sets the session type to Standard_Stream, signals isSessionTypeSet
\* with true, has its payload displayed and is acknowledged, whatever frames
\* of other payload types were received in order before it.
C17_FirstOutputSetsShellSession ==
    [][ \A f \in DataFrames :
          FirstOutputArrives(f) =>
              /\ sessionType' = ShellPluginName
              /\ isSessionTypeSet' = Append(isSessionTypeSet, TRUE)
              /\ \E i \in DOMAIN invocations' :
                    /\ i > Len(invocations)
                    /\ invocations'[i].SequenceNumber = f.SequenceNumber
                    /\ invocations'[i].shown
              /\ AcksWritten(f)' >= 1
      ]_vars

\* the step is the receipt of a channel_closed message
ChannelClosedReceived ==
    /\ lastRaw'.count = lastRaw.count + 1
    /\ lastRaw'.input.message.MessageType = ChannelClosedMessage

StopCallbacks == {"Session.Stop", "ShellSession.Stop", "PortSession.Stop"}

\* C18: on a channel_closed message the data channel marks the session
\* ended, then closes the transport, then calls the stop callback once, in
\* that order; it neither changes ExpectedSequenceNumber nor sends an
\* acknowledge.
C18_ChannelClosedEndsClosesStops ==
    [][ ChannelClosedReceived =>
          /\ \E stop \in StopCallbacks : calls' = calls \o << "EndSession", "Close", stop >>
          /\ isSessionEnded'
          /\ ~wsUp'
          /\ ExpectedSequenceNumber' = ExpectedSequenceNumber
          /\ acks' = acks
          /\ wire' = wire
      ]_vars

\* C18 witness: a channel_closed message whose payload does not deserialize
\* was received by a running port session that had handled a frame.
C18_PortSessionClosed ==
    /\ lastRaw.count > 0
    /\ lastRaw.input.message.MessageType = ChannelClosedMessage
    /\ ~lastRaw.input.message.Payload.parses
    /\ ExpectedSequenceNumber > 0
    /\ isSessionEnded
    /\ calls[Len(calls)] = "PortSession.Stop"

\* C19: after a channel_closed message is received, at any point of the
\* session, Execute eventually returns, and returns no error.
C19_ChannelClosedReturnsExecute ==
    (lastRaw.count > 0 /\ lastRaw.input.message.MessageType = ChannelClosedMessage)
        ~> (executePc = "returned")

\* the byte array is not a frame: DeserializeClientMessage does not give a
\* message for it, or Validate rejects the message
FailsDecoding(input) ==
    LET r == DeserializeClientMessage(input)
    IN r.panics \/ r.err # NoError \/ Validate(r.message) # NoError

\* C20: an inbound frame that fails deserialization or validation is dropped
\* with an error result: no acknowledge is sent, no handler is called, and
\* ExpectedSequenceNumber, the two buffers and the round trip estimators stay
\* as they are.
C20_UndecodableFrameDropped ==
    [][ (lastRaw'.count = lastRaw.count + 1 /\ FailsDecoding(lastRaw'.input)) =>
          /\ lastRaw'.result \notin {NoError, "panic"}
          /\ executePc' = executePc
          /\ acks' = acks
          /\ wire' = wire
          /\ invocations' = invocations
          /\ UNCHANGED << keyboard, codec, forwarder, iterationsSinceEnd, ExpectedSequenceNumber, IncomingMessageBuffer,
                          OutgoingMessageBuffer, RoundTripTime, RoundTripTimeVariation,
                          RetransmissionTimeout >>
      ]_vars

\* C21: for every input, of any length and with any HeaderLength,
\* DeserializeClientMessage returns a message or returns an error: it never
\* reads outside the input.
C21_DeserializeStaysInsideInput ==
    lastRaw.count > 0 => ~DeserializeClientMessage(lastRaw.input).panics

\* C22: for every ClientMessage m, one with a zero-length Payload included,
\* SerializeClientMessage succeeds with a result of length
\* offset(PayloadLength) + 4 + len(Payload), and DeserializeClientMessage of
\* the result yields a message equal to m in MessageType, SchemaVersion,
\* CreatedDate, SequenceNumber, Flags, MessageId, PayloadType, PayloadLength
\* and Payload.
C22_CodecRoundTrip ==
    LET m == codec.result.clientMessage
        r == codec.decoded
    IN /\ codec.pc # "idle" =>
            /\ codec.result.err = NoError
            /\ Len(codec.result.bytes) =
                  ClientMessage_PayloadLengthOffset + 4 + Len(m.Payload)
       /\ codec.pc = "deserialized" =>
            /\ r.err = NoError /\ ~r.panics
            /\ \A f \in { "MessageType", "SchemaVersion", "CreatedDate",
                           "SequenceNumber", "Flags", "MessageId", "PayloadType",
                           "PayloadLength", "Payload" } : r.message[f] = m[f]

\* C23: after every connect or reconnect of the WebSocket the first frame
\* sent on the new connection is the OpenDataChannelInput text frame: no
\* binary frame of the scheduler, of an acknowledge or of another task is sent
\* on that connection before it.
C23_FirstFrameIsOpenDataChannelInput ==
    connection.first # "binary"

\* the step sent a Flag message with the body of DisconnectToPort, and the
\* transport took it
DisconnectToPortSent ==
    /\ Len(wire') = Len(wire) + 1
    /\ wire'[Len(wire')].ok
    /\ wire'[Len(wire')].frame.PayloadType = Flag
    /\ wire'[Len(wire')].frame.Payload.bytes = << 0, 0, 0, 1 >>

\* after the step the forwarder has closed its connection and waits in Accept
\* on the listener, with the data channel open and its counter one further
AcceptsOnSameDataChannel ==
    /\ forwarder'.pc = "accepting"
    /\ forwarder'.open = {}
    /\ wsUp' = wsUp
    /\ ~isSessionEnded'
    /\ StreamDataSequenceNumber' = StreamDataSequenceNumber + 1
    /\ ExpectedSequenceNumber' = ExpectedSequenceNumber

Retransmission ==
    schedulerPc = "resend" /\ schedulerPc' = "sleep" /\ Len(wire') = Len(wire) + 1

\* the step is the resize loop sending a Size message
SizeMessageSent ==
    /\ Len(wire') = Len(wire) + 1
    /\ wire'[Len(wire')].frame.PayloadType = Size
    /\ ~Retransmission

\* C25: after EndSession set isSessionEnded the retransmit scheduler loop and
\* the terminal resize loop each exit at their next check: neither a
\* retransmission nor a Size message is sent after the first loop iteration
\* that follows EndSession (an iteration that was running when EndSession was
\* called, and the first one begun after it, may still send).
C25_LoopsExitAfterEndSession ==
    [][ /\ (isSessionEnded /\ Retransmission) => iterationsSinceEnd.scheduler < 2
        /\ (isSessionEnded /\ SizeMessageSent) => iterationsSinceEnd.resize < 1 ]_vars

C27_RetransmissionSetsLastSentTime ==
    [][ Retransmission =>
          \A i \in DOMAIN OutgoingMessageBuffer' :
              OutgoingMessageBuffer'[i].Content = wire'[Len(wire')].frame
                  => OutgoingMessageBuffer'[i].LastSentTime = now' ]_vars

\* an output stream handler was called with the handshake frame
GivenToOutputStreamHandlers(frame) ==
    \E i \in DOMAIN invocations :
        /\ invocations[i].SequenceNumber = frame.SequenceNumber
        /\ invocations[i].Payload = frame.Payload

\* C28: a frame with a handshake payload type (HandshakeRequest,
\* EncChallengeRequest, HandshakeComplete) goes to its handshake handler and
\* never to the output stream handlers, whether it arrived in order or was
\* buffered in IncomingMessageBuffer and processed in the drain.
C28_HandshakeFramesBypassOutputStreamHandlers ==
    \A frame \in HandshakeFrames : ~GivenToOutputStreamHandlers(frame)

\* the values written to isStreamMessageResendTimeout so far: those still in
\* the channel and the one the listening task took before it ended
ResendTimeoutValuesSent ==
    Len(isStreamMessageResendTimeout) + (IF listenerPc = "terminated" THEN 1 ELSE 0)

\* the values written to isSessionTypeSet so far: those still in the channel
\* and the one Execute took
SessionTypeValuesSent ==
    Len(isSessionTypeSet)
        + (IF executePc \in {"running", "failed", "returned", "returnedError"} THEN 1 ELSE 0)

\* the scheduler stands at its write to isStreamMessageResendTimeout and the
\* channel is full
SchedulerBlockedOnSend ==
    /\ schedulerPc = "resend"
    /\ ResendAttemptsExhausted(ResendAttempt[schedulerElement[1].ResendAttempt])
    /\ Len(isStreamMessageResendTimeout) >= 1

\* C29: isSessionTypeSet and isStreamMessageResendTimeout are one-shot: at most
\* one value is ever written to each of them during a session, and the
\* retransmit scheduler never stands at its write with the channel full.
C29_ChannelsAreOneShot ==
    /\ ResendTimeoutValuesSent <= 1
    /\ SessionTypeValuesSent <= 1
    /\ ~SchedulerBlockedOnSend

\* the message the scheduler took from the front of OutgoingMessageBuffer
\* under the mutex is still the front of the list when the scheduler uses it
SchedulerUsesTheHead ==
    schedulerPc = "resend" =>
        /\ Len(OutgoingMessageBuffer) > 0
        /\ Head(OutgoingMessageBuffer) = schedulerElement[1]

\* C30: every read and every write of the list of OutgoingMessageBuffer and of
\* the map of IncomingMessageBuffer is made by a task that holds the mutex of
\* that buffer (the acknowledge scan and removal, the capacity checks before
\* an add), and no mutation of the list comes between the scheduler's read
\* of the head and its use of it.
C30_BufferAccessesHoldMutex ==
    /\ unlockedAccesses = {}
    /\ SchedulerUsesTheHead

\* what a step does to OutgoingMessageBuffer when it adds: the front is
\* removed from a full buffer, or a message is pushed at the back; the other
\* messages keep their order
EvictsFrontOrPushesBack ==
    OutgoingMessageBuffer' # OutgoingMessageBuffer =>
        \/ /\ Len(OutgoingMessageBuffer) = OutgoingMessageBufferCapacity
           /\ OutgoingMessageBuffer' = Tail(OutgoingMessageBuffer)
        \/ /\ Len(OutgoingMessageBuffer') = Len(OutgoingMessageBuffer) + 1
           /\ SubSeq(OutgoingMessageBuffer', 1, Len(OutgoingMessageBuffer))
                  = OutgoingMessageBuffer

\* C31: OutgoingMessageBuffer never holds more messages than its capacity; an
\* add to a full buffer removes exactly the front message and pushes the new
\* one at the back, the order of the others unchanged.
C31_OutgoingBufferWithinCapacity ==
    /\ [](Len(OutgoingMessageBuffer) <= OutgoingMessageBufferCapacity)
    /\ [][EvictsFrontOrPushesBack]_vars

\* IncomingMessageBuffer has room
HasRoom == Cardinality(DOMAIN IncomingMessageBuffer) < IncomingMessageBufferCapacity

\* the step stores the raw frame under its sequence number and writes its
\* acknowledge
StoredAndAcknowledged(f) ==
    /\ f.SequenceNumber \in DOMAIN IncomingMessageBuffer'
    /\ IncomingMessageBuffer'[f.SequenceNumber].Content = f
    /\ IncomingMessageBuffer'[f.SequenceNumber].SequenceNumber = f.SequenceNumber
    /\ \A n \in DOMAIN IncomingMessageBuffer' \ {f.SequenceNumber} :
           /\ n \in DOMAIN IncomingMessageBuffer
           /\ IncomingMessageBuffer'[n] = IncomingMessageBuffer[n]
    /\ WrittenAcks' = BagAdd(WrittenAcks, [frame |-> AcknowledgeOf(f), ok |-> TRUE])

\* the step neither stores nor acknowledges
NeitherStoredNorAcknowledged ==
    /\ IncomingMessageBuffer' = IncomingMessageBuffer
    /\ WrittenAcks' = WrittenAcks

\* the arrival of a frame ahead of the expected one
ArrivalAhead(f) == Arrival(f) /\ f.SequenceNumber > ExpectedSequenceNumber

\* C32 as the specification states it: a frame ahead of the expected one is
\* stored raw under its sequence number and acknowledged exactly when
\* IncomingMessageBuffer has room, otherwise neither; the buffer never exceeds
\* its capacity and ExpectedSequenceNumber is unchanged.
C32_EarlyFrameStoredIffRoom ==
    /\ [](Cardinality(DOMAIN IncomingMessageBuffer) <= IncomingMessageBufferCapacity)
    /\ [][ \A f \in DOMAIN arrived' :
             ArrivalAhead(f) =>
                 /\ ExpectedSequenceNumber' = ExpectedSequenceNumber
                 /\ IF HasRoom THEN StoredAndAcknowledged(f)
                    ELSE NeitherStoredNorAcknowledged ]_vars

\* C32, amended: stored and acknowledged exactly when the buffer has room and
\* the transport takes the acknowledge; with a full buffer or a failed write
\* of the acknowledge the frame is neither stored nor acknowledged.
C32_EarlyFrameStoredIffRoomAndWritten ==
    /\ [](Cardinality(DOMAIN IncomingMessageBuffer) <= IncomingMessageBufferCapacity)
    /\ [][ \A f \in DOMAIN arrived' :
             ArrivalAhead(f) =>
                 /\ ExpectedSequenceNumber' = ExpectedSequenceNumber
                 /\ IF HasRoom /\ wsUp THEN StoredAndAcknowledged(f)
                    ELSE NeitherStoredNorAcknowledged ]_vars

\* the buffer is full of acknowledged frames and a frame that came when it
\* was full is neither in it nor acknowledged
C32_DroppedWhenFull ==
    /\ Cardinality(DOMAIN IncomingMessageBuffer) = IncomingMessageBufferCapacity
    /\ \A n \in DOMAIN IncomingMessageBuffer :
           AcksWritten(IncomingMessageBuffer[n].Content) > 0
    /\ \E f \in DOMAIN arrived :
           /\ f.SequenceNumber > ExpectedSequenceNumber
           /\ f.SequenceNumber \notin DOMAIN IncomingMessageBuffer
           /\ AcksWritten(f) = 0
           /\ AcksFailed(f) = 0

\* the raw message passed DeserializeClientMessage and Validate
PassesValidate(input) ==
    LET r == DeserializeClientMessage(input)
    IN /\ ~r.panics
       /\ r.err = NoError
       /\ Validate(r.message) = NoError

\* the number of bytes of the Payload DeserializeClientMessage slices off
PayloadBytes(input) ==
    input.length - (input.HeaderLength + ClientMessage_PayloadLengthLength)

\* C33: an inbound frame, other than start_publication and pause_publication,
\* that passes DeserializeClientMessage and Validate has a HeaderLength equal
\* to the offset of PayloadLength, a PayloadLength equal to len(Payload), and
\* a PayloadDigest that is the digest of the Payload.
C33_AcceptedFrameHeaderInvariants ==
    ( /\ lastRaw.count > 0
      /\ lastRaw.input.message.MessageType
             \notin {StartPublicationMessage, PausePublicationMessage}
      /\ PassesValidate(lastRaw.input) )
    => /\ lastRaw.input.HeaderLength = ClientMessage_PayloadLengthOffset
       /\ lastRaw.input.PayloadLength = PayloadBytes(lastRaw.input)
       /\ DeserializeClientMessage(lastRaw.input).message.digestMatches

\* the HandshakeResponse payloads handed to the transport so far
HandshakeResponses ==
    { wire[i].frame.Payload.json :
        i \in { j \in DOMAIN wire :
                  /\ wire[j].frame.MessageType = InputStreamMessage
                  /\ wire[j].frame.PayloadType = HandshakeResponsePayloadType } }

\* the processed action of a requested action of an unknown type carries the
\* error string "Unsupported action <type>", and Errors lists that string
UnsupportedErrorListed(response, processed) ==
    /\ processed.Error = UnsupportedActionError(processed.ActionType)
    /\ \E k \in DOMAIN response.Errors : response.Errors[k] = processed.Error

\* C34: in every HandshakeResponse, the processed action of a requested action
\* whose ActionType is neither KMSEncryption nor SessionType has ActionStatus
\* Unsupported and Error "Unsupported action <type>", and that error string
\* is listed in Errors.
C34_UnknownActionUnsupported ==
    \A response \in HandshakeResponses :
        \A j \in DOMAIN response.ProcessedClientActions :
            LET processed == response.ProcessedClientActions[j]
            IN processed.ActionType \notin {KMSEncryption, SessionTypeAction} =>
                   /\ processed.ActionStatus = Unsupported
                   /\ UnsupportedErrorListed(response, processed)

\* the operations of the resumption so far, in order
ResumptionLog == connection.log

\* the ResumeSession call at position i of the log returned a token
GaveToken(i) ==
    /\ ResumptionLog[i].op = "ResumeSession"
    /\ ResumptionLog[i].ok
    /\ ResumptionLog[i].token # EmptyToken

\* No close, dial or OpenDataChannelInput happens without a token obtained for
\* this very attempt: a close follows a ResumeSession call that gave a token,
\* a dial follows the close, and the OpenDataChannelInput follows a dial that
\* succeeded and carries the token of that call.
AttemptHasFreshToken ==
    \A i \in DOMAIN ResumptionLog :
        /\ ResumptionLog[i].op = "Close" => i > 1 /\ GaveToken(i - 1)
        /\ ResumptionLog[i].op = "Dial" => i > 1 /\ ResumptionLog[i - 1].op = "Close"
        /\ ResumptionLog[i].op = "OpenDataChannelInput" =>
               /\ i > 3
               /\ ResumptionLog[i - 1].op = "Dial" /\ ResumptionLog[i - 1].ok
               /\ GaveToken(i - 3)
               /\ ResumptionLog[i].token = ResumptionLog[i - 3].token

\* After a ResumeSession call that failed or gave no token nothing is done on
\* the channel; after one that gave a token the channel is closed and dialed.
ResumeOutcomeDecides ==
    \A i \in DOMAIN ResumptionLog :
        i < Len(ResumptionLog) =>
            /\ ResumptionLog[i].op = "ResumeSession" /\ ~GaveToken(i) =>
                   ResumptionLog[i + 1].op = "ResumeSession"
            /\ GaveToken(i) => ResumptionLog[i + 1].op = "Close"
            /\ ResumptionLog[i].op = "Close" => ResumptionLog[i + 1].op = "Dial"

EncChallengeHandled(f) ==
    /\ f.PayloadType = EncChallengeRequest
    /\ f.SequenceNumber = ExpectedSequenceNumber
    /\ f.Payload.parses
    /\ arrived' = BagAdd(arrived, f)

\* the EncChallengeRequest is answered with an error and the client goes on
RejectedWithError ==
    /\ executePc' # "panic"
    /\ lastReturn'.err # NoError

\* C36: encryptionEnabled is true only if a KMSEncryption action created the
\* encrypter, and an EncChallengeRequest that arrives while there is no such
\* encrypter is rejected with an error: Decrypt and Encrypt are not called on
\* a missing encrypter.
C36_NoEncrypterNoEncryption ==
    /\ [](encryptionEnabled => encryption = "ready")
    /\ [][ \A f \in HandshakeFrames :
              EncChallengeHandled(f) /\ encryption # "ready" => RejectedWithError ]_vars

\* the sequence numbers of the frames held in IncomingMessageBuffer
BufferedSequenceNumbers == DOMAIN IncomingMessageBuffer

\* C37: after every return of HandleOutputMessage, the error returns included,
\* IncomingMessageBuffer holds no frame whose sequence number is less than or
\* equal to ExpectedSequenceNumber.
C37_NoBufferedFrameAtOrBehindExpected ==
    \A n \in BufferedSequenceNumbers : n > ExpectedSequenceNumber

\* Execute takes true from isSessionTypeSet in this step and looks up the
\* plugin of the session type
RouterLooksUp ==
    /\ executePc = "waitSessionType"
    /\ Len(isSessionTypeSet) > 0
    /\ Head(isSessionTypeSet)
    /\ executePc' # executePc

\* C38: in every state the session type of the data channel is empty,
\* Standard_Stream or Port; when Execute, after isSessionTypeSet delivered
\* true, looks up the plugin of the session type, the type is Standard_Stream
\* or Port, a plugin is registered under it, and the session runs it.
C38_RouterFindsRegisteredPlugin ==
    /\ [](sessionType \in {"", "Standard_Stream", "Port"})
    /\ [][ RouterLooksUp =>
              /\ sessionType \in {"Standard_Stream", "Port"}
              /\ sessionType \in SessionRegistry
              /\ SessionType' = sessionType
              /\ executePc' = "running" ]_vars

\* the first frame of output made the session a shell session, Execute looked
\* up the shell plugin, and a later handshake request set the type Port
C38_ShellRoutedThenPortRequested ==
    /\ executePc = "running"
    /\ SessionType = "Standard_Stream"
    /\ sessionType = "Port"

\* position j of wire holds the first transmission of its message
IsFirstTransmission(j) ==
    \A k \in 1..(j - 1) : wire[k].frame.MessageId # wire[j].frame.MessageId

\* the step is a call of SendInputDataMessage that returns an error: nothing
\* was handed to the transport, or the transport refused the frame
CallFails ==
    /\ sendCalls' = sendCalls + 1
    /\ \/ wire' = wire
       \/ ~wire'[Len(wire')].ok

\* C39: a call of SendInputDataMessage that fails leaves
\* StreamDataSequenceNumber and OutgoingMessageBuffer as they were; a message
\* whose first transmission failed is never handed to the transport again;
\* every call uses as sequence number the number of calls that succeeded
\* before it; and a message is in OutgoingMessageBuffer only if its first
\* transmission was handed to the transport without error.
C39_FailedSendLeavesNoTrace ==
    /\ [][ CallFails => /\ StreamDataSequenceNumber' = StreamDataSequenceNumber
                        /\ OutgoingMessageBuffer' = OutgoingMessageBuffer ]_vars
    /\ [](\A j \in DOMAIN wire :
             IsFirstTransmission(j) =>
                 /\ wire[j].frame.SequenceNumber =
                        Cardinality({ k \in 1..(j - 1) : IsFirstTransmission(k) /\ wire[k].ok })
                 /\ ~wire[j].ok =>
                        \A k \in DOMAIN wire :
                            wire[k].frame.MessageId = wire[j].frame.MessageId => k = j)
    /\ [](\A i \in DOMAIN OutgoingMessageBuffer :
             \E j \in DOMAIN wire :
                 /\ IsFirstTransmission(j)
                 /\ wire[j].ok
                 /\ wire[j].frame = OutgoingMessageBuffer[i].Content)

\* a call failed on the broken connection, the next call succeeded with the
\* same sequence number, and the scheduler retransmitted the second message
C39_FailedThenSentAndRetransmitted ==
    /\ Len(wire) = 3
    /\ ~wire[1].ok
    /\ wire[2].ok
    /\ wire[2].frame.SequenceNumber = wire[1].frame.SequenceNumber
    /\ wire[2].frame.MessageId # wire[1].frame.MessageId
    /\ wire[3].frame = wire[2].frame

\* the bytes the i-th read of stdin returned
ChunkRead(i) == SubSeq(keyboard.reads[i].stdinBytes, 1, keyboard.reads[i].n)

\* the input data of the i-th frame the keyboard loop handed to the transport
ChunkSent(i) == wire[i].frame.Payload.bytes

\* C40: the i-th chunk handed to the transport by the keyboard loop is the
\* i-th chunk read from stdin, with exactly the bytes and the length of that
\* read: the slice is never cut with the length of a later read.
C40_ChunksSentAsRead ==
    \A i \in DOMAIN wire :
        /\ i <= Len(keyboard.reads)
        /\ ChunkSent(i) = ChunkRead(i)

====
